---- MODULE Spec2Model ----
(***************************************************************************)
(* Futex-based synchronization objects of dlls/ntdll/unix/fsync.c: the     *)
(* feature gate (do_fsync), the shared page pool (get_shm), the handle     *)
(* cache (add_to_list, get_cached_object) and the object creation protocol *)
(* (create_fsync, fsync_init, fsync_create_semaphore), as run by the       *)
(* threads of one process.  Every access to a file-scope variable is one   *)
(* step of the thread that makes it.                                       *)
(***************************************************************************)
EXTENDS Integers, Sequences, FiniteSets, TLC

(* ------------------------------ bounds --------------------------------- *)

\* Threads of the process.
NThreads == 2

\* Top-level calls the threads make in a run, all together.
MaxCalls == 3

Threads == 1..NThreads

(* ------------------------- program constants --------------------------- *)

FSYNC_SEMAPHORE == 1

FSYNC_LIST_ENTRIES == 256

\* sizeof(struct fsync) on an LP64 build: an int, padding and a pointer.
SizeofFsync == 16

FSYNC_LIST_BLOCK_SIZE == 65536 \div SizeofFsync

\* sizeof(struct semaphore): the factor of get_shm's idx * 8.
SizeofSemaphore == 8

\* calloc( 128, ... ) and shm_addrs_size = 128 in fsync_init.
InitialShmAddrsSize == 128

\* sysconf( _SC_PAGESIZE ) as fsync_init reads it.
SysPageSize == 4096

\* INT_MAX of a 32-bit int.
IntMax == 2147483647

IntMin == (0 - IntMax) - 1

\* Half of an int's width: 32-bit values that do not fit the checker's integers
\* are computed on 16-bit halves.
HalfWord == 65536

Max(a, b) == IF a >= b THEN a ELSE b

(* ------------------------------ state ---------------------------------- *)

VARIABLES
    proc,              \* "starting" (until fsync_init returns), "running", "exited"
                       \* (exit(1)) or "crashed" (fatal signal)
    pc,                \* per thread: its stack of code positions, innermost first
    calls,             \* per thread: top-level calls made so far
    done,              \* per thread: the last top-level call that returned, and its value
    errno,             \* per thread: the thread-local errno
    environ,           \* the process environment: name -> string
    kernel,            \* how this kernel answers futex operation 13
    libc,              \* what this C library's atoi does with a value no int holds
    do_fsync_cached,   \* static int do_fsync_cached of do_fsync
    df,                \* per thread: locals of do_fsync
    pagesize,          \* static long pagesize
    shm_addrs,         \* static void **shm_addrs: the heap array it points to, 0 for NULL
    shm_addrs_size,    \* static int shm_addrs_size
    heap,              \* the arrays malloc'ed so far, by address: size, still allocated, cells
    maps,              \* the pages mmap'ed so far, by address: file page, still mapped
    gs,                \* per thread: locals of get_shm
    fsync_list,        \* static struct fsync *fsync_list[]: entry -> block address (sparse)
    blocks,            \* the blocks of records, by address: index -> record (sparse)
    al,                \* per thread: locals of add_to_list
    go,                \* per thread: locals of get_cached_object
    shm_fd,            \* static int shm_fd
    srv,               \* the coordinating authority (wineserver) and the shm file it keeps
    cf,                \* per thread: arguments and locals of create_fsync
    hist,              \* history of the run (observations only, never read by the code)
    dynamic_data,      \* mshtml: the DispatchEx object's dispex_dynamic_data_t
    dx,                \* mshtml: the last call on the object and what it returned
    imc,               \* imm32: the InputContextData of the input context
    im                 \* imm32: the calls made on the context, the last one and its value

gateVars == <<environ, kernel, libc, do_fsync_cached>>

poolVars == <<pagesize, shm_addrs, shm_addrs_size, heap, maps>>

\* The state of ntdll's fsync.c.
fsyncVars ==
    <<proc, pc, calls, done, errno, environ, kernel, libc, do_fsync_cached, df,
      pagesize, shm_addrs, shm_addrs_size, heap, maps, gs, fsync_list, blocks, al, go,
      shm_fd, srv, cf, hist>>

\* The state of mshtml's dispex.c and of imm32's imm.c, which no function of
\* fsync.c touches.
dllVars == <<dynamic_data, dx, imc, im>>

vars == <<fsyncVars, dllVars>>

protoVars == <<shm_fd, srv, cf>>

listVars == <<fsync_list, blocks>>

(* --------------------------- control flow ------------------------------ *)

Idle(t) == pc[t] = <<>>

At(t, label) == proc \in {"starting", "running"} /\ pc[t] # <<>> /\ Head(pc[t]) = label

Goto(t, label) == pc' = [pc EXCEPT ![t] = <<label>> \o Tail(@)]

\* Enter a callee at `entry`; on return the caller resumes at `resume`.
Call(t, entry, resume) == pc' = [pc EXCEPT ![t] = <<entry, resume>> \o Tail(@)]

Return(t) == pc' = [pc EXCEPT ![t] = Tail(@)]

RECURSIVE SumTo(_, _)
SumTo(f, n) == IF n = 0 THEN 0 ELSE f[n] + SumTo(f, n - 1)

\* A top-level call may start while the thread is idle and the run has calls left.
CanCall(t) == proc = "running" /\ Idle(t) /\ SumTo(calls, NThreads) < MaxCalls

\* A name no other allocation of the run has: the thread's and its call's.
Fresh(t) == calls[t] * NThreads + t

Enter(t, entry) ==
    /\ pc' = [pc EXCEPT ![t] = <<entry>>]
    /\ calls' = [calls EXCEPT ![t] = @ + 1]
    /\ done' = [done EXCEPT ![t] = [fn |-> "none"]]

NoDone == [fn |-> "none"]

(* ------------------------ the environment ------------------------------ *)

Digits == <<"0", "1", "2", "3", "4", "5", "6", "7", "8", "9">>

IsDigit(c) == \E i \in 1..10 : Digits[i] = c

DigitVal(c) == (CHOOSE i \in 1..10 : Digits[i] = c) - 1

IsSpace(c) == c = " "

RECURSIVE SkipSpace(_)
SkipSpace(s) == IF s # <<>> /\ IsSpace(Head(s)) THEN SkipSpace(Tail(s)) ELSE s

\* The digits s starts with.
RECURSIVE LeadingDigits(_)
LeadingDigits(s) ==
    IF s # <<>> /\ IsDigit(Head(s)) THEN <<Head(s)>> \o LeadingDigits(Tail(s)) ELSE <<>>

\* Whether acc * 10 - d is still an int, for acc <= 0.
FitsNeg(acc, d) ==
    \/ 0 - acc < IntMax \div 10
    \/ 0 - acc = IntMax \div 10 /\ d <= (IntMax % 10) + 1

\* atoi's accumulation, done on negative numbers as the C libraries do it:
\* [ok |-> the value is representable, n |-> minus the value of the digits].
RECURSIVE NegValue(_, _)
NegValue(s, r) ==
    IF s = <<>> \/ ~r.ok THEN r
    ELSE IF FitsNeg(r.n, DigitVal(Head(s)))
         THEN NegValue(Tail(s), [ok |-> TRUE, n |-> r.n * 10 - DigitVal(Head(s))])
         ELSE [ok |-> FALSE, n |-> 0]

\* The same accumulation wrapping at 32 bits, on 16-bit halves <<high, low>>.
RECURSIVE WrapValue(_, _)
WrapValue(s, hl) ==
    IF s = <<>> THEN hl
    ELSE LET low == hl[2] * 10 + DigitVal(Head(s))
         IN  WrapValue(Tail(s), <<(hl[1] * 10 + (low \div HalfWord)) % HalfWord, low % HalfWord>>)

\* The int a 32-bit pattern <<high, low>> stands for.
HalvesToInt(hl) ==
    IF hl[1] >= HalfWord \div 2 THEN (hl[1] - HalfWord) * HalfWord + hl[2]
    ELSE hl[1] * HalfWord + hl[2]

\* What atoi does with a value no int holds, where C leaves the behaviour
\* undefined: "clamp" is strtol's clamped long cut to int with errno set to ERANGE
\* (-1 from LONG_MAX of an LP64 build, 0 from LONG_MIN), "wrap" the value wrapped
\* at 32 bits with errno untouched.
LibcChoices == {"clamp", "wrap"}

\* atoi( s ): blanks, an optional sign, digits; [val |-> the int returned,
\* err |-> the errno it sets or "unchanged"].
Atoi(s) ==
    LET r      == SkipSpace(s)
        minus  == r # <<>> /\ Head(r) = "-"
        signed == r # <<>> /\ Head(r) \in {"-", "+"}
        digits == LeadingDigits(IF signed THEN Tail(r) ELSE r)
        neg    == NegValue(digits, [ok |-> TRUE, n |-> 0])
        wrap   == HalvesToInt(WrapValue(digits, <<0, 0>>))
    IN  IF neg.ok /\ (minus \/ neg.n # IntMin)
        THEN [val |-> IF minus THEN neg.n ELSE 0 - neg.n, err |-> "unchanged"]
        ELSE IF libc = "clamp"
        THEN [val |-> IF minus THEN 0 ELSE 0 - 1, err |-> "ERANGE"]
        ELSE [val |-> IF minus /\ wrap # IntMin THEN 0 - wrap ELSE wrap, err |-> "unchanged"]

\* getenv: the string of the variable, or NULL.
Getenv(name) ==
    IF name \in DOMAIN environ
    THEN [null |-> FALSE, str |-> environ[name]]
    ELSE [null |-> TRUE, str |-> <<>>]

\* The settings of WINEFSYNC a process may start with.
EnvChoices ==
    { [n \in {} |-> <<>>],
      [n \in {"WINEFSYNC"} |-> <<"0">>],
      [n \in {"WINEFSYNC"} |-> <<"1">>],
      [n \in {"WINEFSYNC"} |-> <<"y">>],
      [n \in {"WINEFSYNC"} |-> <<"9", "9", "9", "9", "9", "9", "9", "9", "9", "9">>] }

(* --------------------------- the kernel -------------------------------- *)

\* errno values a thread may hold: "none" is 0.
ErrnoValues == {"none", "ENOSYS", "EINVAL", "ERANGE"}

\* What syscall( __NR_futex, NULL, 13, 0, &zero, 0, 0 ) does on this kernel: the
\* operation is unknown (-1, ENOSYS), known and rejecting the empty wait
\* (-1, EINVAL), or known and returning at once (0, errno untouched).
KernelChoices == {"ENOSYS", "EINVAL", "returns"}

\* errno after futex_wait_multiple( NULL, 0, &zero ), from errno before.
futex_wait_multiple(before) == IF kernel = "returns" THEN before ELSE kernel

\* A wait that suspends the caller although there is nothing to wait for.
BlocksOnEmptyWait(count, timeout) == count = 0

\* Whether futex_wait_multiple( futexes, count, timeout ) suspends the caller:
\* only with something to wait for and time left to wait.  The probe passes
\* count 0 and a zero timeout (lines 81-82).
Blocks(count, timeout) == count > 0 /\ timeout > 0

(* ----------------------------- do_fsync -------------------------------- *)

NoDf == [seen |-> 0 - 1]

\* The value of getenv("WINEFSYNC") && atoi(getenv("WINEFSYNC")) && errno != ENOSYS
\* and the errno it leaves, with `e` the thread's errno before the expression.
Decision(e) ==
    LET env == Getenv("WINEFSYNC")
        a   == Atoi(env.str)
        e2  == IF a.err = "unchanged" THEN e ELSE a.err
    IN  IF env.null THEN [val |-> 0, errno |-> e]
        ELSE IF a.val = 0 THEN [val |-> 0, errno |-> e2]
        ELSE [val |-> IF e2 # "ENOSYS" THEN 1 ELSE 0, errno |-> e2]

\* if (do_fsync_cached == -1)
DfTest(t) ==
    /\ At(t, "df_test")
    /\ df' = [df EXCEPT ![t] = [seen |-> do_fsync_cached]]
    /\ Goto(t, IF do_fsync_cached = 0 - 1 THEN "df_probe" ELSE "df_ret")
    /\ UNCHANGED <<protoVars, proc, calls, done, errno, gateVars, dllVars, hist, poolVars, gs, listVars, al, go>>

\* futex_wait_multiple( NULL, 0, &zero );
DfProbe(t) ==
    /\ At(t, "df_probe")
    /\ ~Blocks(0, 0)
    /\ errno' = [errno EXCEPT ![t] = futex_wait_multiple(@)]
    /\ Goto(t, "df_decide")
    /\ hist' = [hist EXCEPT !.probes = @ + 1]
    /\ UNCHANGED <<protoVars, proc, calls, done, gateVars, dllVars, df, poolVars, gs, listVars, al, go>>

\* do_fsync_cached = getenv("WINEFSYNC") && atoi(getenv("WINEFSYNC")) && errno != ENOSYS;
DfDecide(t) ==
    /\ At(t, "df_decide")
    /\ do_fsync_cached' = Decision(errno[t]).val
    /\ errno' = [errno EXCEPT ![t] = Decision(@).errno]
    /\ df' = [df EXCEPT ![t] = [seen |-> Decision(errno[t]).val]]
    /\ hist' = [hist EXCEPT !.decisions = @ \cup {Decision(errno[t]).val}]
    /\ Goto(t, "df_ret")
    /\ UNCHANGED <<protoVars, proc, calls, done, environ, kernel, libc, dllVars, poolVars, gs,
                   listVars, al, go>>

\* return do_fsync_cached;  The static is read again, or the value the thread
\* already holds in a register is returned: the variable is not volatile.
DfRet(t) ==
    /\ At(t, "df_ret")
    /\ \E v \in {do_fsync_cached, df[t].seen} :
          /\ df' = [df EXCEPT ![t] = [seen |-> v]]
          /\ hist' = [hist EXCEPT !.first_ret = IF @ = 0 - 1 THEN v ELSE @,
                                  !.rets = @ \cup {v}]
          /\ IF Len(pc[t]) = 1
             THEN done' = [done EXCEPT ![t] = [fn |-> "do_fsync", val |-> v]]
             ELSE done' = done
    /\ Return(t)
    /\ UNCHANGED <<protoVars, proc, calls, errno, gateVars, dllVars, poolVars, gs, listVars, al, go>>

\* A thread calls do_fsync().
CallDoFsync(t) ==
    /\ CanCall(t)
    /\ Enter(t, "df_test")
    /\ hist' = [hist EXCEPT !.late[t] = hist.first_ret # 0 - 1]
    /\ UNCHANGED <<protoVars, proc, errno, gateVars, dllVars, df, poolVars, gs, listVars, al, go>>

(* ------------------------- memory and pointers ------------------------- *)

\* A pointer-sized cell holds 0 (NULL), the number of an mmap'ed page (its base
\* address), MAP_FAILED, or one of two marks: Uninit for bytes never written
\* (what realloc appends), Wild for whatever an indeterminate read yields
\* when it is not zero.
NULL == 0

MAP_FAILED == 0 - 1

Uninit == 0 - 2

Wild == 0 - 3

\* The outcome of an access that faults (SIGSEGV).
Fault == 0 - 9

\* Cells are kept sparse: the zero cells of an array are not stored.
Cell(cells, i) == IF i \in DOMAIN cells THEN cells[i] ELSE NULL

SetCell(cells, i, v) ==
    IF v = NULL THEN [j \in DOMAIN cells \ {i} |-> cells[j]]
    ELSE [j \in DOMAIN cells \cup {i} |-> IF j = i THEN v ELSE cells[j]]

\* What a read of an indeterminate value can yield.
Indeterminate == {NULL, Wild}

\* The values a load of a[i] can produce.  Through NULL it faults.  Outside the
\* array, in an array already freed or in bytes never written the behaviour is
\* undefined: the load yields what the memory holds or something else.
Load(a, i) ==
    IF a = NULL THEN {Fault}
    ELSE IF i >= heap[a].size THEN Indeterminate
    ELSE IF Cell(heap[a].cells, i) = Uninit THEN Indeterminate
    ELSE IF ~heap[a].live THEN {Cell(heap[a].cells, i), Wild}
    ELSE {Cell(heap[a].cells, i)}

\* The heap after a store of v to a[i] (a # NULL): a store outside the array
\* lands in memory the model does not hold.
Store(a, i, v) ==
    IF i >= heap[a].size THEN heap
    ELSE [heap EXCEPT ![a].cells = SetCell(@, i, v)]

\* The cells of an array of n entries that starts with the first entries of
\* `cells` and is not written beyond them.
Resized(cells, old, n) ==
    [j \in {k \in DOMAIN cells : k < n} \cup {k \in 0..(n - 1) : k >= old} |->
        IF j < old THEN cells[j] ELSE Uninit]

\* What realloc( a, n entries ) by thread t can do: [ptr |-> the pointer returned,
\* heap |-> the heap afterwards].  It extends or cuts the array in place, moves it
\* (the old array is freed), or fails and returns NULL.  realloc( NULL ) is malloc.
\* realloc of an array already freed is undefined: the C library aborts
\* (ptr |-> Fault), or goes on with the stale bytes.
Realloc(t, a, n) ==
    LET fresh(cells, old) == [size |-> n, live |-> TRUE, cells |-> Resized(cells, old, n)]
        moved == [ptr |-> Fresh(t),
                  heap |-> [b \in DOMAIN heap \cup {Fresh(t)} |->
                              IF b = Fresh(t)
                              THEN IF a = NULL THEN fresh(<<>>, 0)
                                   ELSE fresh(heap[a].cells, heap[a].size)
                              ELSE IF b = a THEN [heap[a] EXCEPT !.live = FALSE]
                              ELSE heap[b]]]
        kept  == [ptr |-> a, heap |-> [heap EXCEPT ![a] = fresh(heap[a].cells, heap[a].size)]]
        fails == [ptr |-> NULL, heap |-> heap]
    IN  IF a = NULL THEN {moved, fails}
        ELSE IF heap[a].live THEN {kept, moved, fails}
        ELSE {moved, [ptr |-> Fault, heap |-> heap]}

\* mmap( NULL, pagesize, ..., MAP_SHARED, shm_fd, page * pagesize ) by thread t:
\* a fresh mapping of the page, or MAP_FAILED; of length 0 it always fails.
Mmap(t, page) ==
    LET failed == [addr |-> MAP_FAILED, maps |-> maps]
        mapped == [addr |-> Fresh(t),
                   maps |-> [a \in DOMAIN maps \cup {Fresh(t)} |->
                               IF a = Fresh(t) THEN [page |-> page, live |-> TRUE]
                               ELSE maps[a]]]
    IN  IF pagesize = 0 THEN {failed} ELSE {mapped, failed}

\* An munmap that leaves the mapping in place.
MunmapKeeps(addr) == maps

\* munmap( addr, pagesize ): of MAP_FAILED it fails with EINVAL and unmaps nothing.
Munmap(addr) ==
    IF addr \in DOMAIN maps THEN [maps EXCEPT ![addr].live = FALSE] ELSE maps

\* The process dies of a fatal signal: nothing runs afterwards.
Crash == proc' = "crashed"

(* ------------------------------ get_shm -------------------------------- *)

NoGs ==
    [idx |-> 0, entry |-> 0, offset |-> 0, size |-> 0, new_size |-> 0, arr |-> NULL,
     cell |-> NULL, addr |-> NULL, ret |-> [base |-> NULL, off |-> 0]]

\* idx * 8 is computed in unsigned int: it wraps at SlotWrap slots.
SlotWrap == 536870912

\* int entry = (idx * 8) / pagesize, for a page size that is a multiple of 8.
ShmEntry(idx, ps) == (idx % SlotWrap) \div (ps \div SizeofSemaphore)

\* int offset = (idx * 8) % pagesize
ShmOffset(idx, ps) == ((idx % SlotWrap) % (ps \div SizeofSemaphore)) * SizeofSemaphore

\* The pointer get_shm returns: (unsigned long)shm_addrs[entry] + offset.
ShmPointer(cell, offset) == [base |-> cell, off |-> offset]

\* The threads other than t that are inside the growth path (lines 127-132) of a
\* get_shm call for slot idx.
Growing(t, idx) ==
    {u \in Threads \ {t} :
        /\ pc[u] # <<>>
        /\ Head(pc[u]) \in {"gs_realloc", "gs_assign", "gs_memset", "gs_setsize"}
        /\ gs[u].idx = idx}

\* A get_shm call of thread t that starts now runs together with the growth
\* path of another call: another thread is inside lines 127-132, or this call
\* is about to grow the array (`grows`) while another is past line 125.
GrowthOverlaps(t, grows) ==
    \E u \in Threads \ {t} :
        /\ pc[u] # <<>>
        /\ \/ Head(pc[u]) \in {"gs_realloc", "gs_assign", "gs_memset", "gs_setsize"}
           \/ grows /\ Head(pc[u]) \in {"gs_test", "gs_mmap", "gs_cas", "gs_munmap", "gs_ret"}

\* Lines 122-125.  With pagesize 0 (fsync_init has not set it) the divisions are
\* undefined: the CPU traps (SIGFPE), or yields 0 and the dividend.
GsEntry(t) ==
    /\ At(t, "gs_entry")
    /\ IF pagesize = 0
       THEN \E trap \in BOOLEAN :
               IF trap
               THEN Crash /\ UNCHANGED <<pc, gs>>
               ELSE /\ gs' = [gs EXCEPT ![t].entry = 0,
                                        ![t].offset = (gs[t].idx % SlotWrap) * SizeofSemaphore,
                                        ![t].size = shm_addrs_size]
                    /\ Goto(t, IF 0 >= shm_addrs_size THEN "gs_realloc" ELSE "gs_test")
                    /\ UNCHANGED proc
       ELSE /\ gs' = [gs EXCEPT ![t].entry = ShmEntry(gs[t].idx, pagesize),
                                ![t].offset = ShmOffset(gs[t].idx, pagesize),
                                ![t].size = shm_addrs_size]
            /\ Goto(t, IF ShmEntry(gs[t].idx, pagesize) >= shm_addrs_size
                       THEN "gs_realloc" ELSE "gs_test")
            /\ UNCHANGED proc
    /\ LET entry == IF pagesize = 0 THEN 0 ELSE ShmEntry(gs[t].idx, pagesize)
           grows == entry >= shm_addrs_size
       IN  hist' = [hist EXCEPT
                       !.raced = IF pagesize # 0 /\ grows /\ Growing(t, gs[t].idx) # {}
                                 THEN @ \cup {gs[t].idx} ELSE @,
                       !.grow_raced = @ \/ GrowthOverlaps(t, grows)]
    /\ UNCHANGED <<protoVars, calls, done, errno, gateVars, dllVars, df, poolVars, listVars, al, go>>

\* int new_size = max(shm_addrs_size * 2, entry + 1);
NewSize(size, entry) == Max(size * 2, entry + 1)

\* realloc( shm_addrs, new_size * sizeof(shm_addrs[0]) ), line 129 before the
\* assignment.
GsRealloc(t) ==
    /\ At(t, "gs_realloc")
    /\ \E r \in Realloc(t, shm_addrs, NewSize(gs[t].size, gs[t].entry)) :
          IF r.ptr = Fault
          THEN Crash /\ UNCHANGED <<pc, gs, heap>>
          ELSE /\ heap' = r.heap
               /\ gs' = [gs EXCEPT ![t].new_size = NewSize(gs[t].size, gs[t].entry),
                                   ![t].arr = r.ptr]
               /\ Goto(t, "gs_assign")
               /\ UNCHANGED proc
    /\ UNCHANGED <<protoVars, calls, done, errno, gateVars, dllVars, df, pagesize, shm_addrs, shm_addrs_size,
                   maps, hist, listVars, al, go>>

\* shm_addrs = (the pointer realloc returned); a NULL is logged and used.
GsAssign(t) ==
    /\ At(t, "gs_assign")
    /\ shm_addrs' = gs[t].arr
    /\ Goto(t, "gs_memset")
    /\ UNCHANGED <<protoVars, proc, calls, done, errno, gateVars, dllVars, df, pagesize, shm_addrs_size, heap,
                   maps, gs, hist, listVars, al, go>>

\* The heap after memset( a + from, 0, (to - from) * sizeof(void *) ), a # NULL:
\* the part of the range that lies in the array is zeroed.
Memset(a, from, to) ==
    [heap EXCEPT ![a].cells =
        [j \in {k \in DOMAIN @ : k < from \/ k >= to \/ k >= heap[a].size} |-> @[j]]]

\* memset( shm_addrs + shm_addrs_size, 0, (new_size - shm_addrs_size) * ... ), line
\* 131.  shm_addrs_size is read again or taken from the register loaded at line
\* 125.  A negative count is a huge size_t: the memset runs off the heap.
GsMemset(t) ==
    /\ At(t, "gs_memset")
    /\ \E from \in {gs[t].size, shm_addrs_size} :
          IF from = gs[t].new_size
          THEN Goto(t, "gs_setsize") /\ UNCHANGED <<proc, heap>>
          ELSE IF shm_addrs = NULL \/ from > gs[t].new_size
          THEN Crash /\ UNCHANGED <<pc, heap>>
          ELSE /\ heap' = Memset(shm_addrs, from, gs[t].new_size)
               /\ Goto(t, "gs_setsize")
               /\ UNCHANGED proc
    /\ UNCHANGED <<protoVars, calls, done, errno, gateVars, dllVars, df, pagesize, shm_addrs, shm_addrs_size,
                   maps, gs, hist, listVars, al, go>>

\* shm_addrs_size = new_size;
GsSetSize(t) ==
    /\ At(t, "gs_setsize")
    /\ shm_addrs_size' = gs[t].new_size
    /\ Goto(t, "gs_test")
    /\ UNCHANGED <<protoVars, proc, calls, done, errno, gateVars, dllVars, df, pagesize, shm_addrs, heap, maps,
                   gs, hist, listVars, al, go>>

\* if (!shm_addrs[entry])
GsTest(t) ==
    /\ At(t, "gs_test")
    /\ \E v \in Load(shm_addrs, gs[t].entry) :
          IF v = Fault
          THEN Crash /\ UNCHANGED <<pc, gs>>
          ELSE /\ gs' = [gs EXCEPT ![t].cell = v]
               /\ Goto(t, IF v = NULL THEN "gs_mmap" ELSE "gs_ret")
               /\ UNCHANGED proc
    /\ UNCHANGED <<protoVars, calls, done, errno, gateVars, dllVars, df, poolVars, hist, listVars, al, go>>

\* void *addr = mmap( NULL, pagesize, ..., shm_fd, entry * pagesize ); a failure
\* is logged and addr stays (void *)-1.
GsMmap(t) ==
    /\ At(t, "gs_mmap")
    /\ \E m \in Mmap(t, gs[t].entry) :
          /\ maps' = m.maps
          /\ gs' = [gs EXCEPT ![t].addr = m.addr]
          /\ hist' = [hist EXCEPT !.mmap_failed = @ \/ m.addr = MAP_FAILED]
    /\ Goto(t, "gs_cas")
    /\ UNCHANGED <<protoVars, proc, calls, done, errno, gateVars, dllVars, df, pagesize, shm_addrs,
                   shm_addrs_size, heap, listVars, al, go>>

\* __sync_val_compare_and_swap( &shm_addrs[entry], 0, addr ), line 143.
GsCas(t) ==
    /\ At(t, "gs_cas")
    /\ \E v \in Load(shm_addrs, gs[t].entry) :
          IF v = Fault
          THEN Crash /\ UNCHANGED <<pc, gs, heap>>
          ELSE /\ heap' = IF v = NULL THEN Store(shm_addrs, gs[t].entry, gs[t].addr) ELSE heap
               /\ gs' = [gs EXCEPT ![t].cell = IF v = NULL THEN gs[t].addr ELSE v]
               /\ Goto(t, IF v = NULL THEN "gs_ret" ELSE "gs_munmap")
               /\ UNCHANGED proc
    /\ UNCHANGED <<protoVars, calls, done, errno, gateVars, dllVars, df, pagesize, shm_addrs, shm_addrs_size,
                   maps, hist, listVars, al, go>>

\* munmap( addr, pagesize ); /* someone beat us to it */
GsMunmap(t) ==
    /\ At(t, "gs_munmap")
    /\ maps' = Munmap(gs[t].addr)
    /\ Goto(t, "gs_ret")
    /\ UNCHANGED <<protoVars, proc, calls, done, errno, gateVars, dllVars, df, pagesize, shm_addrs,
                   shm_addrs_size, heap, gs, hist, listVars, al, go>>

\* return (void *)((unsigned long)shm_addrs[entry] + offset);  After the CAS the
\* cell is loaded again; on the path that found it set, the value the test
\* loaded may be used instead.
GsRet(t) ==
    /\ At(t, "gs_ret")
    /\ \E v \in Load(shm_addrs, gs[t].entry) \cup {gs[t].cell} :
          IF v = Fault
          THEN Crash /\ UNCHANGED <<pc, gs, done, hist>>
          ELSE /\ gs' = [gs EXCEPT ![t] = [NoGs EXCEPT !.ret = ShmPointer(v, gs[t].offset)]]
               /\ hist' = [hist EXCEPT !.shm_rets =
                              @ \cup {<<gs[t].idx, ShmPointer(v, gs[t].offset)>>}]
               /\ IF Len(pc[t]) = 1
                  THEN done' = [done EXCEPT ![t] = [fn |-> "get_shm", idx |-> gs[t].idx,
                                                    val |-> ShmPointer(v, gs[t].offset)]]
                  ELSE done' = done
               /\ Return(t)
               /\ UNCHANGED proc
    /\ UNCHANGED <<protoVars, calls, errno, gateVars, dllVars, df, poolVars, listVars, al, go>>

\* The slot indices the threads ask for: 40 lies in page 0, 65576 in page 128,
\* the first page beyond the array fsync_init allocates, and 536870952 is
\* SlotWrap + 40.
ShmIdxChoices == {40, 65576, 536870952}

\* A thread calls get_shm( idx ).
CallGetShm(t) ==
    /\ CanCall(t)
    /\ Enter(t, "gs_entry")
    /\ \E idx \in ShmIdxChoices : gs' = [gs EXCEPT ![t] = [NoGs EXCEPT !.idx = idx]]
    /\ UNCHANGED <<protoVars, proc, errno, gateVars, dllVars, df, poolVars, hist, listVars, al, go>>

(* ----------------------------- handle cache ---------------------------- *)

\* The address of fsync_list_initial_block.
InitialBlock == 1

NullShm == [base |-> NULL, off |-> 0]

\* A record of a block never written: anonymous and static memory start zeroed.
ZeroRecord == [type |-> 0, shm |-> NullShm]

\* The address of a record, &fsync_list[entry][idx] given the block's address.
NullRecord == [blk |-> NULL, idx |-> 0]

RecordAt(blk, idx) ==
    IF blk \in DOMAIN blocks /\ idx \in DOMAIN blocks[blk] THEN blocks[blk][idx] ELSE ZeroRecord

SetRecord(blk, idx, rec) ==
    [blocks EXCEPT ![blk] = [j \in DOMAIN @ \cup {idx} |-> IF j = idx THEN rec ELSE @[j]]]

ListEntry(entry) == IF entry \in DOMAIN fsync_list THEN fsync_list[entry] ELSE NULL

SetListEntry(entry, blk) ==
    [e \in DOMAIN fsync_list \cup {entry} |-> IF e = entry THEN blk ELSE fsync_list[e]]

\* An index without the subtraction of 1.
handle_to_index_from_1(handle) ==
    [entry |-> (handle \div 4) \div FSYNC_LIST_BLOCK_SIZE,
     idx |-> (handle \div 4) % FSYNC_LIST_BLOCK_SIZE]

\* handle_to_index: idx = (handle >> 2) - 1 in UINT_PTR, split into the block
\* `entry` and the index in it.  For a handle below 4 the subtraction wraps to
\* the largest UINT_PTR: the last index of a block far beyond FSYNC_LIST_ENTRIES,
\* which IntMax stands for.
handle_to_index(handle) ==
    LET i == (handle \div 4) - 1
    IN  IF i < 0 THEN [entry |-> IntMax, idx |-> FSYNC_LIST_BLOCK_SIZE - 1]
        ELSE [entry |-> i \div FSYNC_LIST_BLOCK_SIZE, idx |-> i % FSYNC_LIST_BLOCK_SIZE]

\* A range test that lets block FSYNC_LIST_ENTRIES through.
TooManyHandlesOffByOne(entry) == entry > FSYNC_LIST_ENTRIES

\* Lines 170 and 198: entry >= FSYNC_LIST_ENTRIES.
TooManyHandles(entry) == entry >= FSYNC_LIST_ENTRIES

NoAl ==
    [handle |-> 0, type |-> 0, shm |-> NullShm, entry |-> 0, idx |-> 0, ptr |-> NULL,
     ret |-> NullRecord]

\* Lines 168-174: too many handles are not cached, add_to_list returns FALSE.
AlEntry(t) ==
    /\ At(t, "al_entry")
    /\ al' = [al EXCEPT ![t].entry = handle_to_index(al[t].handle).entry,
                        ![t].idx = handle_to_index(al[t].handle).idx,
                        ![t].ret = NullRecord]
    /\ Goto(t, IF TooManyHandles(handle_to_index(al[t].handle).entry)
               THEN "al_ret" ELSE "al_test")
    /\ UNCHANGED <<protoVars, proc, calls, done, errno, gateVars, dllVars, df, poolVars, gs, listVars, go, hist>>

\* A block test that maps block 0 like every other block.
BlockSourceAlwaysMapped(entry) == "al_alloc"

\* Lines 178-185: block 0 is fsync_list_initial_block, every other block is
\* mapped.
BlockSource(entry) == IF entry = 0 THEN "al_static" ELSE "al_alloc"

\* if (!fsync_list[entry])
AlTest(t) ==
    /\ At(t, "al_test")
    /\ Goto(t, IF ListEntry(al[t].entry) # NULL THEN "al_cas" ELSE BlockSource(al[t].entry))
    /\ UNCHANGED <<protoVars, proc, calls, done, errno, gateVars, dllVars, df, poolVars, gs, listVars, al, go, hist>>

\* if (!entry) fsync_list[0] = fsync_list_initial_block;  hist.reinstalled tells
\* that the store came after a record of the block was published.
AlStatic(t) ==
    /\ At(t, "al_static")
    /\ fsync_list' = SetListEntry(0, InitialBlock)
    /\ hist' = [hist EXCEPT !.reinstalled = @ \/ RecordAt(InitialBlock, al[t].idx).type # 0]
    /\ Goto(t, "al_cas")
    /\ UNCHANGED <<protoVars, proc, calls, done, errno, gateVars, dllVars, df, poolVars, gs, blocks, al, go>>

\* anon_mmap_alloc( FSYNC_LIST_BLOCK_SIZE * sizeof(struct fsync), ... ) by thread
\* t: [ptr |-> a fresh zeroed block or MAP_FAILED, blocks |-> the blocks afterwards].
AnonMmapAlloc(t) ==
    { [ptr |-> Fresh(t),
       blocks |-> [b \in DOMAIN blocks \cup {Fresh(t)} |->
                     IF b = Fresh(t) THEN <<>> ELSE blocks[b]]],
      [ptr |-> MAP_FAILED, blocks |-> blocks] }

\* Lines 181-183: allocate a block; if (ptr == MAP_FAILED) return FALSE;
AlAlloc(t) ==
    /\ At(t, "al_alloc")
    /\ \E m \in AnonMmapAlloc(t) :
          /\ blocks' = m.blocks
          /\ al' = [al EXCEPT ![t].ptr = m.ptr]
          /\ Goto(t, IF m.ptr = MAP_FAILED THEN "al_ret" ELSE "al_setblk")
    /\ UNCHANGED <<protoVars, proc, calls, done, errno, gateVars, dllVars, df, poolVars, gs, fsync_list, go, hist>>

\* fsync_list[entry] = ptr;
AlSetBlk(t) ==
    /\ At(t, "al_setblk")
    /\ fsync_list' = SetListEntry(al[t].entry, al[t].ptr)
    /\ Goto(t, "al_cas")
    /\ UNCHANGED <<protoVars, proc, calls, done, errno, gateVars, dllVars, df, poolVars, gs, blocks, al, go, hist>>

\* Whether the CAS of line 188 on a record goes through: the type is still 0.
CasWins(rec) == rec.type = 0

\* What add_to_list does to a record between lines 188 and 189: the type is
\* CAS-published; the shm pointer is not yet written.
Published(rec, type, shm) == [rec EXCEPT !.type = type]

\* What line 189 does to the record.
Completed(rec, type, shm) == [rec EXCEPT !.shm = shm]

\* A lost CAS that goes back to the block test and tries again.
RetryAfterLostCas(type) == "al_test"

\* Lines 188-191: a CAS that finds the type set skips the store of line 189 and
\* falls through to the return; it is not tried again.
AfterLostCas(type) == "al_result"

\* if (!__sync_val_compare_and_swap( (int *)&fsync_list[entry][idx].type, 0, type ))
AlCas(t) ==
    /\ At(t, "al_cas")
    /\ LET blk == ListEntry(al[t].entry)
           rec == RecordAt(blk, al[t].idx)
       IN  IF CasWins(rec)
           THEN /\ blocks' = SetRecord(blk, al[t].idx, Published(rec, al[t].type, al[t].shm))
                /\ hist' = [hist EXCEPT !.cas_won =
                               @ \cup {<<t, al[t].handle, al[t].type, al[t].shm>>}]
                /\ Goto(t, "al_shm")
           ELSE /\ blocks' = blocks
                /\ hist' = hist
                /\ Goto(t, AfterLostCas(rec.type))
    /\ UNCHANGED <<protoVars, proc, calls, done, errno, gateVars, dllVars, df, poolVars, gs, fsync_list, al, go>>

\* fsync_list[entry][idx].shm = shm;
AlShm(t) ==
    /\ At(t, "al_shm")
    /\ LET blk == ListEntry(al[t].entry)
       IN  blocks' = SetRecord(blk, al[t].idx,
                               Completed(RecordAt(blk, al[t].idx), al[t].type, al[t].shm))
    /\ Goto(t, "al_result")
    /\ UNCHANGED <<protoVars, proc, calls, done, errno, gateVars, dllVars, df, poolVars, gs, fsync_list, al, go, hist>>

\* return &fsync_list[entry][idx];
AlResult(t) ==
    /\ At(t, "al_result")
    /\ al' = [al EXCEPT ![t].ret = [blk |-> ListEntry(al[t].entry), idx |-> al[t].idx]]
    /\ Goto(t, "al_ret")
    /\ UNCHANGED <<protoVars, proc, calls, done, errno, gateVars, dllVars, df, poolVars, gs, listVars, go, hist>>

\* add_to_list returns to its caller.
AlRet(t) ==
    /\ At(t, "al_ret")
    /\ al' = [al EXCEPT ![t] = [NoAl EXCEPT !.ret = al[t].ret]]
    /\ IF Len(pc[t]) = 1
       THEN done' = [done EXCEPT ![t] = [fn |-> "add_to_list", handle |-> al[t].handle,
                                         val |-> al[t].ret]]
       ELSE done' = done
    /\ Return(t)
    /\ UNCHANGED <<protoVars, proc, calls, errno, gateVars, dllVars, df, poolVars, gs, listVars, go, hist>>

NoGo == [handle |-> 0, entry |-> 0, idx |-> 0, ret |-> NullRecord]

\* if (entry >= FSYNC_LIST_ENTRIES || !fsync_list[entry]) return NULL;
GoEntry(t) ==
    /\ At(t, "go_entry")
    /\ LET i == handle_to_index(go[t].handle)
       IN  /\ go' = [go EXCEPT ![t].entry = i.entry, ![t].idx = i.idx, ![t].ret = NullRecord]
           /\ Goto(t, IF TooManyHandles(i.entry) \/ ListEntry(i.entry) = NULL
                      THEN "go_ret" ELSE "go_type")
    /\ UNCHANGED <<protoVars, proc, calls, done, errno, gateVars, dllVars, df, poolVars, gs, listVars, al, hist>>

\* A test of line 199 that lets every record through.
UnpublishedNever(rec) == FALSE

\* Line 199: the record's type is still zero.
Unpublished(rec) == rec.type = 0

\* if (!fsync_list[entry][idx].type) return NULL;
GoType(t) ==
    /\ At(t, "go_type")
    /\ Goto(t, IF Unpublished(RecordAt(ListEntry(go[t].entry), go[t].idx))
               THEN "go_ret" ELSE "go_result")
    /\ UNCHANGED <<protoVars, proc, calls, done, errno, gateVars, dllVars, df, poolVars, gs, listVars, al, go, hist>>

\* return &fsync_list[entry][idx];
GoResult(t) ==
    /\ At(t, "go_result")
    /\ go' = [go EXCEPT ![t].ret = [blk |-> ListEntry(go[t].entry), idx |-> go[t].idx]]
    /\ Goto(t, "go_ret")
    /\ UNCHANGED <<protoVars, proc, calls, done, errno, gateVars, dllVars, df, poolVars, gs, listVars, al, hist>>

\* get_cached_object returns to its caller, which reads the record; quiet tells
\* that the handle cache is as it was when the call started.
GoRet(t) ==
    /\ At(t, "go_ret")
    /\ go' = [go EXCEPT ![t] = [NoGo EXCEPT !.ret = go[t].ret]]
    /\ IF Len(pc[t]) = 1
       THEN done' = [done EXCEPT ![t] =
                        [fn |-> "get_cached_object", handle |-> go[t].handle,
                         val |-> go[t].ret, rec |-> RecordAt(go[t].ret.blk, go[t].ret.idx),
                         quiet |-> hist.lookup_from[t] = <<fsync_list, blocks>>]]
       ELSE done' = done
    /\ hist' = [hist EXCEPT !.lookup_from[t] = <<>>]
    /\ Return(t)
    /\ UNCHANGED <<protoVars, proc, calls, errno, gateVars, dllVars, df, poolVars, gs, listVars, al>>

\* The handles the threads use: 4 is index 0 of block 0, 16388 index 0 of block
\* 1, 4194308 lies in block 256, beyond the list, and 0 is a handle below 4.
HandleChoices == {0, 4, 16388, 4194308}

\* The handles the authority hands out: multiples of 4 from 4 on.
ServerHandles == HandleChoices \ {0}

\* The shm pointers the threads pass to add_to_list.
ShmChoices == {[base |-> 2, off |-> 0], [base |-> 3, off |-> 8]}

\* A thread calls add_to_list( handle, FSYNC_SEMAPHORE, shm ).
CallAddToList(t) ==
    /\ CanCall(t)
    /\ Enter(t, "al_entry")
    /\ \E h \in HandleChoices, p \in ShmChoices :
          /\ al' = [al EXCEPT ![t] = [NoAl EXCEPT !.handle = h, !.type = FSYNC_SEMAPHORE,
                                                   !.shm = p]]
          /\ hist' = [hist EXCEPT !.adds = @ \cup {<<h, FSYNC_SEMAPHORE, p>>}]
    /\ UNCHANGED <<protoVars, proc, errno, gateVars, dllVars, df, poolVars, gs, listVars, go>>

\* A thread calls get_cached_object( handle ).
CallGetCachedObject(t) ==
    /\ CanCall(t)
    /\ Enter(t, "go_entry")
    /\ \E h \in HandleChoices : go' = [go EXCEPT ![t] = [NoGo EXCEPT !.handle = h]]
    /\ hist' = [hist EXCEPT !.lookup_from[t] = <<fsync_list, blocks>>]
    /\ UNCHANGED <<protoVars, proc, errno, gateVars, dllVars, df, poolVars, gs, listVars, al>>

\* Handles around the first records of blocks 0, 1 and 256, with all values of
\* the two low bits, and handles below 4.
IndexHandles == {0, 3, 4, 5, 6, 7, 8, 16384, 16387, 16388, 16391, 4194308}

\* A thread calls get_cached_object( handle ) with one of these handles.
CallIndex(t) ==
    /\ CanCall(t)
    /\ Enter(t, "go_entry")
    /\ \E h \in IndexHandles : go' = [go EXCEPT ![t] = [NoGo EXCEPT !.handle = h]]
    /\ hist' = [hist EXCEPT !.lookup_from[t] = <<fsync_list, blocks>>]
    /\ UNCHANGED <<protoVars, proc, errno, gateVars, dllVars, df, poolVars, gs, listVars, al>>

(* ------------------------ the coordinating authority -------------------- *)

STATUS_SUCCESS == "STATUS_SUCCESS"

STATUS_OBJECT_NAME_EXISTS == "STATUS_OBJECT_NAME_EXISTS"

STATUS_NOT_IMPLEMENTED == "STATUS_NOT_IMPLEMENTED"

STATUS_INVALID_PARAMETER == "STATUS_INVALID_PARAMETER"

STATUS_ACCESS_DENIED == "STATUS_ACCESS_DENIED"

STATUS_NO_MEMORY == "STATUS_NO_MEMORY"

\* attr == NULL: the object has no name.
NoName == "none"

\* An OBJECT_ATTRIBUTES that alloc_object_attributes rejects.
BadAttr == "invalid"

\* The name of an object that exists and that this process may not open.
LockedName == "Locked"

\* alloc_object_attributes( attr, &objattr, &len ): 0, or the status it rejects
\* the attributes with.  Of a NULL attr it makes an empty objattr.
alloc_object_attributes(attr) ==
    IF attr = BadAttr THEN STATUS_INVALID_PARAMETER ELSE STATUS_SUCCESS

\* The replies the authority can give to a create_fsync request, and its state
\* afterwards.  An authority running without fsync does not implement the
\* request.  One running with it refuses bad parameters and objects the process
\* may not open, answers the name of an object that exists with that object's
\* handle and slot, and else creates an object under a handle that is not in
\* use and in the lowest slot that is not in use.
AuthorityReplies(req) ==
    LET refuse(status) == {[status |-> status, handle |-> 0, shm_idx |-> 0, srv |-> srv]}
        slots == ShmIdxChoices \ srv.slots
        free == (ServerHandles \ srv.handles) \X {i \in slots : \A j \in slots : i <= j}
    IN  IF ~srv.fsync THEN refuse(STATUS_NOT_IMPLEMENTED)
        ELSE IF req.low < 0 \/ req.low > req.high THEN refuse(STATUS_INVALID_PARAMETER)
        ELSE IF req.objattr = LockedName THEN refuse(STATUS_ACCESS_DENIED)
        ELSE IF req.objattr \in DOMAIN srv.named
        THEN {[status |-> STATUS_OBJECT_NAME_EXISTS, handle |-> srv.named[req.objattr].handle,
               shm_idx |-> srv.named[req.objattr].shm_idx, srv |-> srv]}
        ELSE IF free = {} THEN refuse(STATUS_NO_MEMORY)
        ELSE {[status |-> STATUS_SUCCESS, handle |-> f[1], shm_idx |-> f[2],
               srv |-> [srv EXCEPT
                   !.handles = @ \cup {f[1]},
                   !.slots = @ \cup {f[2]},
                   !.named = IF req.objattr = NoName THEN @
                             ELSE [n \in DOMAIN @ \cup {req.objattr} |->
                                     IF n = req.objattr THEN [handle |-> f[1], shm_idx |-> f[2]]
                                     ELSE @[n]]]] : f \in free}

\* The authority before any request.
ServerChoices ==
    {[fsync |-> f, file |-> s, named |-> [n \in {} |-> 0], handles |-> {}, slots |-> {}] :
        f \in BOOLEAN, s \in {"present", "missing", "denied"}}

(* ---------------------------- create_fsync ----------------------------- *)

\* A request that clamps a negative low to 0 before sending.
RequestClamped(access, low, high, objattr) ==
    [access |-> access, low |-> Max(low, 0), high |-> high, objattr |-> objattr]

\* A request that leaves the marshalled attributes out.
RequestWithoutAttributes(access, low, high, objattr) ==
    [access |-> access, low |-> low, high |-> high, objattr |-> NoName]

\* Lines 216-219: the create_fsync request as the code fills it: access, low,
\* high and the marshalled attributes (the name, or nothing for a NULL attr).
Request(access, low, high, objattr) ==
    [access |-> access, low |-> low, high |-> high, objattr |-> objattr]

\* The access mask of the callers of fsync_create_semaphore; fsync_init passes 0.
SemaphoreAccess == "SEMAPHORE_ALL_ACCESS"

NoAccess == "0"

\* reply is "none" until the authority has answered this call; the caller's
\* *handle and the local shm_idx start unwritten; sent counts the requests of
\* the call and req is the last one.
NoCf ==
    [type |-> 0, access |-> NoAccess, attr |-> NoName, low |-> 0, high |-> 0,
     ret |-> STATUS_SUCCESS, reply |-> "none", handle |-> Uninit, shm_idx |-> Uninit,
     sent |-> 0, req |-> Request(NoAccess, 0, 0, NoName)]

\* A line 221 that takes the handle and the slot of a new object only.
HandleWrittenOnSuccess(ret) == ret = STATUS_SUCCESS

\* A line 229 that skips the population only for an authority without fsync.
PopulatesUnlessNotImplemented(ret) == ret # STATUS_NOT_IMPLEMENTED

\* if (!ret || ret == STATUS_OBJECT_NAME_EXISTS), line 221: the reply's handle
\* and slot are taken.
HandleWritten(ret) == ret \in {STATUS_SUCCESS, STATUS_OBJECT_NAME_EXISTS}

\* if (!ret || ret == STATUS_OBJECT_NAME_EXISTS), line 229: the page pool and
\* the handle cache are populated.
Populates(ret) == ret \in {STATUS_SUCCESS, STATUS_OBJECT_NAME_EXISTS}

\* The values a read of the local shm_idx yields: indeterminate if it was never
\* written.
SlotRead(v) == IF v = Uninit THEN ShmIdxChoices ELSE {v}

\* A line 212 that goes on whatever the status.
SerializationFailedNever(status) == FALSE

\* Line 212: a status other than 0 ends the call.
SerializationFailed(status) == status # STATUS_SUCCESS

\* if ((ret = alloc_object_attributes( attr, &objattr, &len ))) return ret;
CfAlloc(t) ==
    /\ At(t, "cf_alloc")
    /\ cf' = [cf EXCEPT ![t].ret = alloc_object_attributes(cf[t].attr)]
    /\ IF SerializationFailed(alloc_object_attributes(cf[t].attr))
       THEN Return(t)
       ELSE Goto(t, "cf_request")
    /\ UNCHANGED <<proc, calls, done, errno, gateVars, dllVars, df, poolVars, gs, listVars, al, go,
                   shm_fd, srv, hist>>

\* A call that sends its request again after a refusal.
RetryOnFailure(ret) ==
    IF ret \in {STATUS_SUCCESS, STATUS_OBJECT_NAME_EXISTS} THEN "cf_populate" ELSE "cf_request"

\* Lines 220-229: after wine_server_call the call goes on to the test of line
\* 229, whatever the status.
AfterReply(ret) == "cf_populate"

\* Lines 214-227: the request carries access, low, high and the attributes; the
\* reply's status becomes ret.
CfRequest(t) ==
    /\ At(t, "cf_request")
    /\ \E r \in AuthorityReplies(Request(cf[t].access, cf[t].low, cf[t].high, cf[t].attr)) :
          /\ srv' = r.srv
          /\ cf' = [cf EXCEPT ![t].ret = r.status,
                              ![t].reply = r.status,
                              ![t].sent = @ + 1,
                              ![t].req = Request(cf[t].access, cf[t].low, cf[t].high,
                                                 cf[t].attr),
                              ![t].handle = IF HandleWritten(r.status) THEN r.handle ELSE @,
                              ![t].shm_idx = IF HandleWritten(r.status) THEN r.shm_idx ELSE @]
          /\ hist' = [hist EXCEPT !.probe = IF proc = "starting" THEN r.status ELSE @]
          /\ Goto(t, AfterReply(r.status))
    /\ UNCHANGED <<proc, calls, done, errno, gateVars, dllVars, df, poolVars, gs, listVars, al, go,
                   shm_fd>>

\* Line 229 and the call get_shm( shm_idx ) of line 231.
CfPopulate(t) ==
    /\ At(t, "cf_populate")
    /\ IF Populates(cf[t].ret)
       THEN /\ \E idx \in SlotRead(cf[t].shm_idx) :
                  gs' = [gs EXCEPT ![t] = [NoGs EXCEPT !.idx = idx]]
            /\ Call(t, "gs_entry", "cf_add")
       ELSE /\ gs' = gs
            /\ Goto(t, "cf_free")
    /\ UNCHANGED <<proc, calls, done, errno, gateVars, dllVars, df, poolVars, listVars, al, go,
                   protoVars, hist>>

\* add_to_list( *handle, type, (the pointer get_shm returned) ), line 231.
CfAdd(t) ==
    /\ At(t, "cf_add")
    /\ al' = [al EXCEPT ![t] = [NoAl EXCEPT !.handle = cf[t].handle, !.type = cf[t].type,
                                             !.shm = gs[t].ret]]
    /\ Call(t, "al_entry", "cf_free")
    /\ UNCHANGED <<proc, calls, done, errno, gateVars, dllVars, df, poolVars, gs, listVars, go,
                   protoVars, hist>>

\* A return that reports a handle that was not cached as a failure.
NoMemoryIfNotCached(ret, added) ==
    IF ret \in {STATUS_SUCCESS, STATUS_OBJECT_NAME_EXISTS} /\ added = NullRecord
    THEN STATUS_NO_MEMORY ELSE ret

\* Lines 231-236: the value of add_to_list is dropped; create_fsync returns the
\* ret of line 220.
ReturnedStatus(ret, added) == ret

\* free( objattr ); return ret;
CfFree(t) ==
    /\ At(t, "cf_free")
    /\ cf' = [cf EXCEPT ![t].ret = ReturnedStatus(cf[t].ret, al[t].ret)]
    /\ Return(t)
    /\ UNCHANGED <<proc, calls, done, errno, gateVars, dllVars, df, poolVars, gs, listVars, al, go,
                   shm_fd, srv, hist>>

(* ----------------------- fsync_create_semaphore ------------------------ *)

\* What get_cached_object( handle ) returns in the current state.
GetCachedObject(handle) ==
    LET i   == handle_to_index(handle)
        blk == ListEntry(i.entry)
    IN  IF TooManyHandles(i.entry) \/ blk = NULL THEN NullRecord
        ELSE IF RecordAt(blk, i.idx).type = 0 THEN NullRecord
        ELSE [blk |-> blk, idx |-> i.idx]

\* The pointer the page pool holds for slot idx in the current state: what a
\* get_shm( idx ) that finds the page mapped returns.
PoolPointer(idx) ==
    IF pagesize = 0 \/ shm_addrs = NULL \/ idx = Uninit THEN NullShm
    ELSE IF ShmEntry(idx, pagesize) >= heap[shm_addrs].size THEN NullShm
    ELSE ShmPointer(Cell(heap[shm_addrs].cells, ShmEntry(idx, pagesize)),
                    ShmOffset(idx, pagesize))

\* The arguments the threads create semaphores with: the attributes (no name,
\* a name, a name the authority refuses, attributes that are rejected locally)
\* and the counts; initial 6 with max 5 and a negative initial are pairs the
\* authority refuses.
CreateChoices ==
    { [attr |-> NoName, initial |-> 0, max |-> 5],
      [attr |-> NoName, initial |-> 6, max |-> 5],
      [attr |-> NoName, initial |-> 0 - 1, max |-> 5],
      [attr |-> "Foo", initial |-> 0, max |-> 5],
      [attr |-> "Foo", initial |-> 3, max |-> 5],
      [attr |-> LockedName, initial |-> 0, max |-> 5],
      [attr |-> BadAttr, initial |-> 0, max |-> 5] }

\* The other threads that are inside a call.
Busy(t) == {u \in Threads \ {t} : ~Idle(u)}

\* A thread calls fsync_create_semaphore( &handle, access, attr, initial, max ).
CallFsyncCreateSemaphore(t) ==
    /\ CanCall(t)
    /\ Enter(t, "fcs_entry")
    /\ \E a \in CreateChoices :
          /\ cf' = [cf EXCEPT ![t] = [NoCf EXCEPT !.type = FSYNC_SEMAPHORE,
                                                   !.access = SemaphoreAccess, !.attr = a.attr,
                                                   !.low = a.initial, !.high = a.max]]
          /\ hist' = [hist EXCEPT !.after[t] = a.attr \in DOMAIN hist.first,
                                  !.overlapped = IF Busy(t) = {} THEN @ \ {t}
                                                 ELSE @ \cup {t} \cup Busy(t)]
    /\ UNCHANGED <<proc, errno, gateVars, dllVars, df, poolVars, gs, listVars, al, go, shm_fd, srv>>

\* return create_fsync( FSYNC_SEMAPHORE, handle, access, attr, initial, max );
FcsEntry(t) ==
    /\ At(t, "fcs_entry")
    /\ Call(t, "cf_alloc", "fcs_ret")
    /\ UNCHANGED <<proc, calls, done, errno, gateVars, dllVars, df, poolVars, gs, listVars, al, go,
                   protoVars, hist>>

\* fsync_create_semaphore returns create_fsync's status.  The caller is left
\* with the status and its handle variable; what the handle cache and the page
\* pool hold for them at that moment is recorded with them.
FcsRet(t) ==
    /\ At(t, "fcs_ret")
    /\ LET h      == cf[t].handle
           cached == GetCachedObject(h)
           result == [fn |-> "fsync_create_semaphore", attr |-> cf[t].attr,
                      type |-> cf[t].type, initial |-> cf[t].low, max |-> cf[t].high,
                      sent |-> cf[t].sent, req |-> cf[t].req,
                      ret |-> cf[t].ret, reply |-> cf[t].reply, handle |-> h,
                      shm_idx |-> cf[t].shm_idx, after |-> hist.after[t],
                      alone |-> t \notin hist.overlapped,
                      cached |-> cached, rec |-> RecordAt(cached.blk, cached.idx),
                      pool |-> PoolPointer(cf[t].shm_idx)]
       IN  /\ done' = [done EXCEPT ![t] = result]
           /\ hist' = IF /\ cf[t].ret = STATUS_SUCCESS
                         /\ cf[t].attr # NoName
                         /\ cf[t].attr \notin DOMAIN hist.first
                      THEN [hist EXCEPT !.first =
                               [n \in DOMAIN @ \cup {cf[t].attr} |->
                                   IF n = cf[t].attr THEN result ELSE @[n]]]
                      ELSE hist
    /\ cf' = [cf EXCEPT ![t] = NoCf]
    /\ Return(t)
    /\ UNCHANGED <<proc, calls, errno, gateVars, dllVars, df, poolVars, gs, listVars, al, go,
                   shm_fd, srv>>

(* ----------------------------- fsync_init ------------------------------ *)

\* The descriptor shm_open returns when it succeeds.
ShmFd == 3

\* exit(1): the process ends, no thread takes another step.
Exit(t) == proc' = "exited" /\ Goto(t, "exited")

\* A line 250 with the comparison turned around.
ProbeMismatchInverted(ret) == ret = STATUS_NOT_IMPLEMENTED

\* if (ret != STATUS_NOT_IMPLEMENTED), line 250: the authority runs with fsync
\* and this process does not.
ProbeMismatch(ret) == ret # STATUS_NOT_IMPLEMENTED

\* The process start-up calls fsync_init(), once and before anything else.
CallFsyncInit(t) ==
    /\ proc = "starting" /\ t = 1 /\ Idle(t) /\ calls[t] = 0
    /\ Enter(t, "fi_entry")
    /\ UNCHANGED <<proc, errno, gateVars, dllVars, df, poolVars, gs, listVars, al, go, protoVars, hist>>

\* The call do_fsync() of line 243.
FiEntry(t) ==
    /\ At(t, "fi_entry")
    /\ Call(t, "df_test", "fi_gate")
    /\ UNCHANGED <<proc, calls, done, errno, gateVars, dllVars, df, poolVars, gs, listVars, al, go,
                   protoVars, hist>>

\* if (!do_fsync()) ret = create_fsync( 0, &handle, 0, NULL, 0, 0 );
FiGate(t) ==
    /\ At(t, "fi_gate")
    /\ IF df[t].seen = 0
       THEN /\ cf' = [cf EXCEPT ![t] = NoCf]
            /\ Call(t, "cf_alloc", "fi_probe")
       ELSE /\ cf' = cf
            /\ Goto(t, "fi_open")
    /\ UNCHANGED <<proc, calls, done, errno, gateVars, dllVars, df, poolVars, gs, listVars, al, go,
                   shm_fd, srv, hist>>

\* Lines 250-256: exit(1) unless the authority does not implement the request.
FiProbe(t) ==
    /\ At(t, "fi_probe")
    /\ IF ProbeMismatch(cf[t].ret)
       THEN Exit(t) /\ UNCHANGED <<done, cf>>
       ELSE /\ proc' = "running"
            /\ done' = [done EXCEPT ![t] = [fn |-> "fsync_init"]]
            /\ cf' = [cf EXCEPT ![t] = NoCf]
            /\ Return(t)
    /\ UNCHANGED <<calls, errno, gateVars, dllVars, df, poolVars, gs, listVars, al, go, shm_fd, srv,
                   hist>>

\* shm_open( shm_name, O_RDWR, 0644 ): without O_CREAT it opens the file if it
\* is there and the process may open it, and never makes one.
ShmOpen(file) ==
    IF file = "present" THEN [fd |-> ShmFd, err |-> "unchanged"]
    ELSE IF file = "missing" THEN [fd |-> 0 - 1, err |-> "ENOENT"]
    ELSE [fd |-> 0 - 1, err |-> "EACCES"]

\* A line 267 that gives up only when the file is missing.
OpenFatalOnEnoent(fd, err) == fd = 0 - 1 /\ err = "ENOENT"

\* Lines 267-275: any failure of shm_open is fatal; errno only selects the
\* message.
OpenFatal(fd, err) == fd = 0 - 1

\* Lines 259-275: the name of the shm file is made from the inode of the
\* configuration directory and the file is opened O_RDWR, never created;
\* exit(1) if that fails.
FiOpen(t) ==
    /\ At(t, "fi_open")
    /\ LET o == ShmOpen(srv.file)
       IN  /\ shm_fd' = o.fd
           /\ errno' = [errno EXCEPT ![t] = IF o.err = "unchanged" THEN @ ELSE o.err]
           /\ IF OpenFatal(o.fd, o.err)
              THEN Exit(t)
              ELSE Goto(t, "fi_pool") /\ UNCHANGED proc
    /\ UNCHANGED <<calls, done, gateVars, dllVars, df, poolVars, gs, listVars, al, go, srv, cf, hist>>

\* What calloc( n, sizeof(void *) ) can do: a zeroed array of n entries at
\* address 1, or NULL.
Calloc(n) ==
    { [ptr |-> 1,
       heap |-> [a \in DOMAIN heap \cup {1} |->
                   IF a = 1 THEN [size |-> n, live |-> TRUE, cells |-> <<>>] ELSE heap[a]]],
      [ptr |-> NULL, heap |-> heap] }

\* Lines 277-280: pagesize = sysconf( _SC_PAGESIZE ); shm_addrs = calloc( 128, ... );
\* (the result is not tested) shm_addrs_size = 128; and fsync_init returns.
FiPool(t) ==
    /\ At(t, "fi_pool")
    /\ pagesize' = SysPageSize
    /\ \E c \in Calloc(InitialShmAddrsSize) :
          /\ shm_addrs' = c.ptr
          /\ heap' = c.heap
    /\ shm_addrs_size' = InitialShmAddrsSize
    /\ proc' = "running"
    /\ done' = [done EXCEPT ![t] = [fn |-> "fsync_init"]]
    /\ Return(t)
    /\ UNCHANGED <<calls, errno, gateVars, dllVars, df, maps, gs, listVars, al, go, protoVars, hist>>

(* ------------------------- mshtml: dispex.c ---------------------------- *)

\* #define DISPID_DYNPROP_0 0x50000000
DISPID_DYNPROP_0 == 1342177280

DISPID_DYNPROP_MAX == 1610612735

\* The size of the property array get_dynamic_prop starts with (line 663).
FirstBufSize == 4

S_OK == "S_OK"

DISP_E_UNKNOWNNAME == "DISP_E_UNKNOWNNAME"

E_OUTOFMEMORY == "E_OUTOFMEMORY"

VT_EMPTY == "VT_EMPTY"

\* The names the callers use: they differ in case only.
DxNames == {"a", "A"}

\* The grfdex bits get_dynamic_prop tests.
DxFlags == SUBSET {"fdexNameEnsure", "fdexNameCaseInsensitive"}

\* The allocation of a call that fails, if any: of the dispex_dynamic_data_t, of
\* the property array (heap_alloc or heap_realloc), or of the copy of the name.
DxOom == {"none", "data", "props", "name"}

\* This->dynamic_data: not allocated, or buf_size, prop_cnt and the entries
\* props[0..prop_cnt-1], kept as a sequence (entry i of the array is props[i + 1]).
NoDynamicData == [allocated |-> FALSE, buf_size |-> 0, prop_cnt |-> 0, props |-> <<>>]

\* An object on which three properties of other names have been created.
ThreeProps ==
    [allocated |-> TRUE, buf_size |-> FirstBufSize, prop_cnt |-> 3,
     props |-> [i \in 1..3 |-> [name |-> <<"p", "q", "r">>[i], deleted |-> FALSE,
                                var |-> VT_EMPTY]]]

NoDx == [fn |-> "none"]

\* wcsicmp sees the names as equal.
LowerCase(name) == IF name = "A" THEN "a" ELSE name

\* Line 646: wcsicmp under fdexNameCaseInsensitive, wcscmp otherwise.
NameMatches(prop_name, name, flags) ==
    IF "fdexNameCaseInsensitive" \in flags THEN LowerCase(prop_name) = LowerCase(name)
    ELSE prop_name = name

\* The loop of lines 645-655 stops at the first entry whose name matches: its
\* index in the array, or -1.
FirstMatch(data, name, flags) ==
    LET hits == {i \in 0..(data.prop_cnt - 1) : NameMatches(data.props[i + 1].name, name, flags)}
    IN  IF hits = {} THEN 0 - 1 ELSE CHOOSE i \in hits : \A j \in hits : i <= j

\* An identifier that counts the entries from 1.
DynIdFromOne(pos) == DISPID_DYNPROP_0 + pos + 1

\* Lines 713, 1930, 2164: DISPID_DYNPROP_0 + (prop - This->dynamic_data->props).
DynId(pos) == DISPID_DYNPROP_0 + pos

\* get_dynamic_data, lines 620-633: the data, allocated zeroed on first use; NULL
\* (allocated stays FALSE) if that fails.  The object has no populate_props.
get_dynamic_data(data, oom) ==
    IF data.allocated THEN data
    ELSE IF oom = "data" THEN data
    ELSE [NoDynamicData EXCEPT !.allocated = TRUE]

\* Lines 662-676: the array after the test for room: allocated with 4 entries,
\* doubled when full, else as it is; buf_size 0 - 1 stands for a failed
\* allocation.
Grown(data, oom) ==
    IF data.buf_size = 0
    THEN [data EXCEPT !.buf_size = IF oom = "props" THEN 0 - 1 ELSE FirstBufSize]
    ELSE IF data.buf_size = data.prop_cnt
    THEN [data EXCEPT !.buf_size = IF oom = "props" THEN 0 - 1 ELSE @ * 2]
    ELSE data

\* get_dynamic_prop( This, name, flags, &prop ), lines 635-689: [hres, pos |-> the
\* index of *ret in the array, found_deleted |-> the matching entry was marked
\* deleted, data |-> the data afterwards].
get_dynamic_prop(data0, name, flags, oom) ==
    LET alloc == "fdexNameEnsure" \in flags
        data  == get_dynamic_data(data0, oom)
        i     == FirstMatch(data, name, flags)
        out(hres, pos, was_deleted, d) ==
            [hres |-> hres, pos |-> pos, found_deleted |-> was_deleted, data |-> d]
    IN  IF ~data.allocated THEN out(E_OUTOFMEMORY, 0 - 1, FALSE, data)
        ELSE IF i >= 0
        THEN IF data.props[i + 1].deleted
             THEN IF ~alloc THEN out(DISP_E_UNKNOWNNAME, 0 - 1, TRUE, data)
                  ELSE out(S_OK, i, TRUE, [data EXCEPT !.props[i + 1].deleted = FALSE])
             ELSE out(S_OK, i, FALSE, data)
        ELSE IF ~alloc THEN out(DISP_E_UNKNOWNNAME, 0 - 1, FALSE, data)
        ELSE LET g == Grown(data, oom)
             IN  IF g.buf_size = 0 - 1 THEN out(E_OUTOFMEMORY, 0 - 1, FALSE, data)
                 ELSE IF oom = "name" THEN out(E_OUTOFMEMORY, 0 - 1, FALSE, g)
                 ELSE out(S_OK, g.prop_cnt, FALSE,
                          [g EXCEPT !.prop_cnt = @ + 1,
                                    !.props = Append(@, [name |-> name, deleted |-> FALSE,
                                                         var |-> VT_EMPTY])])

\* What a call on the object leaves in dx: the function, its arguments, the
\* HRESULT and the identifier written to *id (0 if none was).
DxResult(fn, name, flags, id_in, r) ==
    [fn |-> fn, name |-> name, flags |-> flags, id_in |-> id_in, hres |-> r.hres,
     id |-> IF r.hres = S_OK /\ r.pos >= 0 THEN DynId(r.pos) ELSE 0,
     found_deleted |-> r.found_deleted]

\* The identifier of a name is asked for with any flags: get_dynamic_prop as
\* DispatchEx_GetDispID calls it (lines 1926-1931).
CallGetDynamicProp ==
    /\ \E name \in DxNames, flags \in DxFlags, oom \in DxOom :
          LET r == get_dynamic_prop(dynamic_data, name, flags, oom)
          IN  /\ dynamic_data' = r.data
              /\ dx' = DxResult("get_dynamic_prop", name, flags, 0, r)
    /\ UNCHANGED <<fsyncVars, imc, im>>

\* dispex_get_dynid( This, name, &id ), lines 704-715.
dispex_get_dynid ==
    /\ \E name \in DxNames, oom \in DxOom :
          LET r == get_dynamic_prop(dynamic_data, name, {"fdexNameEnsure"}, oom)
          IN  /\ dynamic_data' = r.data
              /\ dx' = DxResult("dispex_get_dynid", name, {"fdexNameEnsure"}, 0, r)
    /\ UNCHANGED <<fsyncVars, imc, im>>

\* dispex_get_dprop_ref( This, name, TRUE, &ret ), lines 691-702, and the caller's
\* store of a value through *ret.
dispex_get_dprop_ref ==
    /\ \E name \in DxNames, oom \in DxOom :
          LET r == get_dynamic_prop(dynamic_data, name, {"fdexNameEnsure"}, oom)
          IN  /\ dynamic_data' = IF r.hres = S_OK
                                 THEN [r.data EXCEPT !.props[r.pos + 1].var = "value"]
                                 ELSE r.data
              /\ dx' = DxResult("dispex_get_dprop_ref", name, {"fdexNameEnsure"}, 0, r)
    /\ UNCHANGED <<fsyncVars, imc, im>>

\* The identifiers deletion is asked for: of the entries there are, the first
\* one beyond them, and one that is not of a dynamic property.
DxIds == {DISPID_DYNPROP_0 + i : i \in 0..dynamic_data.prop_cnt} \cup {1}

\* is_dynamic_dispid, lines 595-598.
is_dynamic_dispid(id) == DISPID_DYNPROP_0 <= id /\ id <= DISPID_DYNPROP_MAX

\* Lines 2384-2385: VariantClear( &prop->var ); prop->flags |= DYNPROP_DELETED;
MarkDeleted(prop) == [prop EXCEPT !.var = VT_EMPTY, !.deleted = TRUE]

\* dispex_delete_prop( dispex, id ), lines 2374-2390.
dispex_delete_prop ==
    /\ \E id \in DxIds, oom \in {"none", "data"} :
          LET data == get_dynamic_data(dynamic_data, oom)
              idx  == id - DISPID_DYNPROP_0
          IN  /\ dynamic_data' =
                    IF ~is_dynamic_dispid(id) THEN dynamic_data
                    ELSE IF ~data.allocated \/ idx >= data.prop_cnt THEN data
                    ELSE [data EXCEPT !.props[idx + 1] = MarkDeleted(@)]
              /\ dx' = [fn |-> "dispex_delete_prop", name |-> "", flags |-> {}, id_in |-> id,
                        hres |-> S_OK, id |-> 0, found_deleted |-> FALSE]
    /\ UNCHANGED <<fsyncVars, imc, im>>

(* --------------------------- imm32: imm.c ------------------------------ *)

\* The calls on the input context a run makes.
MaxImmCalls == 6

\* A DWORD is kept as its 16-bit halves <<high, low>>.
DwordZero == <<0, 0>>

DwordMax == <<HalfWord - 1, HalfWord - 1>>

\* v + 1 and v - 1 in 32-bit unsigned arithmetic.
DwordInc(v) ==
    IF v[2] + 1 < HalfWord THEN <<v[1], v[2] + 1>> ELSE <<(v[1] + 1) % HalfWord, 0>>

DwordDec(v) ==
    IF v[2] > 0 THEN <<v[1], v[2] - 1>> ELSE <<(v[1] + HalfWord - 1) % HalfWord, HalfWord - 1>>

\* The handles the callers pass: NULL and the handle of the input context.
ValidImc == 1

ImcHandles == {NULL, ValidImc}

\* The InputContextData of the context: exists is FALSE while the handle has no
\* client data yet (a default context before its first use).
NoImc == [exists |-> FALSE, dwLock |-> DwordZero]

NoIm == [calls |-> 0, fn |-> "none", himc |-> NULL]

\* The lock counts a context can have reached when the run starts: none, one,
\* and the two largest a DWORD holds.
DwLockStarts == {DwordZero, DwordInc(DwordZero), DwordDec(DwordMax), DwordMax}

\* get_imc_data( handle ), lines 885-891: the data of the handle; for a handle
\* without data create_input_context makes it, zeroed, or fails (no IME); NULL
\* (exists FALSE) for a NULL handle.
get_imc_data(handle) ==
    IF handle = NULL THEN {NoImc}
    ELSE IF imc.exists THEN {imc}
    ELSE {NoImc, [NoImc EXCEPT !.exists = TRUE]}

\* ImmLockIMC( hIMC ), lines 2787-2795.
ImmLockIMC ==
    /\ im.calls < MaxImmCalls
    /\ \E h \in ImcHandles : \E data \in get_imc_data(h) :
          IF ~data.exists
          THEN /\ imc' = imc
               /\ im' = [calls |-> im.calls + 1, fn |-> "ImmLockIMC", himc |-> h,
                         ret |-> "NULL"]
          ELSE /\ imc' = [data EXCEPT !.dwLock = DwordInc(@)]
               /\ im' = [calls |-> im.calls + 1, fn |-> "ImmLockIMC", himc |-> h,
                         ret |-> "&data->IMC"]
    /\ UNCHANGED <<fsyncVars, dynamic_data, dx>>

\* ImmUnlockIMC( hIMC ), lines 2800-2809.
ImmUnlockIMC ==
    /\ im.calls < MaxImmCalls
    /\ \E h \in ImcHandles : \E data \in get_imc_data(h) :
          IF ~data.exists
          THEN /\ imc' = imc
               /\ im' = [calls |-> im.calls + 1, fn |-> "ImmUnlockIMC", himc |-> h,
                         ret |-> FALSE]
          ELSE /\ imc' = IF data.dwLock # DwordZero
                         THEN [data EXCEPT !.dwLock = DwordDec(@)] ELSE data
               /\ im' = [calls |-> im.calls + 1, fn |-> "ImmUnlockIMC", himc |-> h,
                         ret |-> TRUE]
    /\ UNCHANGED <<fsyncVars, dynamic_data, dx>>

\* ImmGetIMCLockCount( hIMC ), lines 2814-2820.
ImmGetIMCLockCount ==
    /\ im.calls < MaxImmCalls
    /\ \E h \in ImcHandles : \E data \in get_imc_data(h) :
          /\ imc' = IF data.exists THEN data ELSE imc
          /\ im' = [calls |-> im.calls + 1, fn |-> "ImmGetIMCLockCount", himc |-> h,
                    ret |-> IF data.exists THEN data.dwLock ELSE DwordZero]
    /\ UNCHANGED <<fsyncVars, dynamic_data, dx>>

\* The two libraries before any call: the object has no dynamic data, the
\* handle of the input context has no client data.
DllStart ==
    /\ dynamic_data = NoDynamicData
    /\ dx = NoDx
    /\ imc = NoImc
    /\ im = NoIm

(* ------------------------------ specs ---------------------------------- *)

NoHist ==
    [first_ret |-> 0 - 1, late |-> [t \in Threads |-> FALSE], rets |-> {},
     decisions |-> {}, probes |-> 0, shm_rets |-> {}, raced |-> {},
     mmap_failed |-> FALSE, grow_raced |-> FALSE, adds |-> {}, cas_won |-> {},
     reinstalled |-> FALSE,
     lookup_from |-> [t \in Threads |-> <<>>], probe |-> "none",
     after |-> [t \in Threads |-> FALSE], overlapped |-> {},
     first |-> [n \in {} |-> 0]]

\* A process before fsync_init: any environment, any kernel, any errno left in
\* each thread by what it ran before.
InitGate ==
    /\ proc = "running"
    /\ pc = [t \in Threads |-> <<>>]
    /\ calls = [t \in Threads |-> 0]
    /\ done = [t \in Threads |-> NoDone]
    /\ errno \in [Threads -> ErrnoValues]
    /\ environ \in EnvChoices
    /\ kernel \in KernelChoices
    /\ libc \in LibcChoices
    /\ do_fsync_cached = 0 - 1
    /\ df = [t \in Threads |-> NoDf]
    /\ pagesize = 0
    /\ shm_addrs = NULL
    /\ shm_addrs_size = 0
    /\ heap = [a \in {} |-> 0]
    /\ maps = [a \in {} |-> 0]
    /\ gs = [t \in Threads |-> NoGs]
    /\ fsync_list = <<>>
    /\ blocks = [b \in {InitialBlock} |-> <<>>]
    /\ al = [t \in Threads |-> NoAl]
    /\ go = [t \in Threads |-> NoGo]
    /\ shm_fd = 0
    /\ srv \in {c \in ServerChoices : ~c.fsync /\ c.file = "missing"}
    /\ cf = [t \in Threads |-> NoCf]
    /\ hist = NoHist
    /\ DllStart

NextGate ==
    \E t \in Threads :
        \/ CallDoFsync(t)
        \/ DfTest(t)
        \/ DfProbe(t)
        \/ DfDecide(t)
        \/ DfRet(t)

\* The threads of a process call do_fsync concurrently.
SpecGate == InitGate /\ [][NextGate]_vars

\* A process after fsync_init has set up the page pool (lines 277-280) on a
\* system whose page size is one of `sizes`: the decision is "enabled", the
\* array holds 128 NULL entries, no page is mapped.
PoolReady(sizes) ==
    /\ proc = "running"
    /\ pc = [t \in Threads |-> <<>>]
    /\ calls = [t \in Threads |-> 0]
    /\ done = [t \in Threads |-> NoDone]
    /\ errno = [t \in Threads |-> "none"]
    /\ environ = [n \in {"WINEFSYNC"} |-> <<"1">>]
    /\ kernel = "EINVAL"
    /\ libc = "clamp"
    /\ do_fsync_cached = 1
    /\ df = [t \in Threads |-> NoDf]
    /\ pagesize \in sizes
    /\ shm_addrs = 1
    /\ shm_addrs_size = InitialShmAddrsSize
    /\ heap = [a \in {1} |-> [size |-> InitialShmAddrsSize, live |-> TRUE, cells |-> <<>>]]
    /\ maps = [a \in {} |-> 0]
    /\ gs = [t \in Threads |-> NoGs]
    /\ fsync_list = <<>>
    /\ blocks = [b \in {InitialBlock} |-> <<>>]
    /\ al = [t \in Threads |-> NoAl]
    /\ go = [t \in Threads |-> NoGo]
    /\ shm_fd = ShmFd
    /\ srv \in {c \in ServerChoices : c.fsync /\ c.file = "present"}
    /\ cf = [t \in Threads |-> NoCf]
    /\ hist = NoHist

InitPool(sizes) == PoolReady(sizes) /\ DllStart

InitShm == InitPool({SysPageSize})

NextShm ==
    \E t \in Threads :
        \/ CallGetShm(t)
        \/ GsEntry(t)
        \/ GsRealloc(t)
        \/ GsAssign(t)
        \/ GsMemset(t)
        \/ GsSetSize(t)
        \/ GsTest(t)
        \/ GsMmap(t)
        \/ GsCas(t)
        \/ GsMunmap(t)
        \/ GsRet(t)

\* The threads of an initialized process call get_shm concurrently.
SpecShm == InitShm /\ [][NextShm]_vars

NextList ==
    \E t \in Threads :
        \/ CallAddToList(t)
        \/ AlEntry(t)
        \/ AlTest(t)
        \/ AlStatic(t)
        \/ AlAlloc(t)
        \/ AlSetBlk(t)
        \/ AlCas(t)
        \/ AlShm(t)
        \/ AlResult(t)
        \/ AlRet(t)
        \/ CallGetCachedObject(t)
        \/ GoEntry(t)
        \/ GoType(t)
        \/ GoResult(t)
        \/ GoRet(t)

\* The threads of an initialized process call add_to_list and get_cached_object
\* concurrently; the handle cache starts as the zeroed statics.
SpecList == InitShm /\ [][NextList]_vars

\* The steps of thread t inside get_shm, add_to_list and get_cached_object.
FastStep(t) ==
    \/ GsEntry(t)
    \/ GsRealloc(t)
    \/ GsAssign(t)
    \/ GsMemset(t)
    \/ GsSetSize(t)
    \/ GsTest(t)
    \/ GsMmap(t)
    \/ GsCas(t)
    \/ GsMunmap(t)
    \/ GsRet(t)
    \/ AlEntry(t)
    \/ AlTest(t)
    \/ AlStatic(t)
    \/ AlAlloc(t)
    \/ AlSetBlk(t)
    \/ AlCas(t)
    \/ AlShm(t)
    \/ AlResult(t)
    \/ AlRet(t)
    \/ GoEntry(t)
    \/ GoType(t)
    \/ GoResult(t)
    \/ GoRet(t)

\* Slot 40 lies in a page of the array, slot 65576 in the first page beyond it;
\* handle 4 lies in the static block, handle 16388 in block 1.
FastIdx == {40, 65576}

FastHandles == {4, 16388}

\* A thread calls get_shm( idx ), add_to_list( handle, FSYNC_SEMAPHORE, shm ) or
\* get_cached_object( handle ).
CallFast(t) ==
    /\ CanCall(t)
    /\ \/ /\ Enter(t, "gs_entry")
          /\ \E idx \in FastIdx : gs' = [gs EXCEPT ![t] = [NoGs EXCEPT !.idx = idx]]
          /\ UNCHANGED <<al, go, hist>>
       \/ /\ Enter(t, "al_entry")
          /\ \E h \in FastHandles :
                al' = [al EXCEPT ![t] = [NoAl EXCEPT !.handle = h, !.type = FSYNC_SEMAPHORE,
                                                     !.shm = [base |-> 2, off |-> 0]]]
          /\ UNCHANGED <<gs, go, hist>>
       \/ /\ Enter(t, "go_entry")
          /\ \E h \in FastHandles : go' = [go EXCEPT ![t] = [NoGo EXCEPT !.handle = h]]
          /\ hist' = [hist EXCEPT !.lookup_from[t] = <<fsync_list, blocks>>]
          /\ UNCHANGED <<gs, al>>
    /\ UNCHANGED <<protoVars, proc, errno, gateVars, dllVars, df, poolVars, listVars>>

NextFast ==
    \E t \in Threads :
        \/ CallFast(t)
        \/ FastStep(t)

\* The threads of an initialized process call get_shm, add_to_list and
\* get_cached_object concurrently, each thread at its own pace.
SpecFast == InitShm /\ [][NextFast]_vars

\* Page sizes that are multiples of 8: the size of one block, of three, and the
\* sizes sysconf gives on common systems.
PageSizes == {8, 24, 4096, 65536}

\* Slots at the start and the end of a 4096-byte page, slot 40, and slot 1 again
\* beyond SlotWrap.
OffsetIdx == {0, 1, 40, 511, 512, 536870913}

\* The first thread calls get_shm( idx ).
CallOffset(t) ==
    /\ t = 1
    /\ CanCall(t)
    /\ Enter(t, "gs_entry")
    /\ \E idx \in OffsetIdx : gs' = [gs EXCEPT ![t] = [NoGs EXCEPT !.idx = idx]]
    /\ UNCHANGED <<protoVars, proc, errno, gateVars, dllVars, df, poolVars, hist, listVars, al, go>>

NextOffset ==
    \E t \in Threads :
        \/ CallOffset(t)
        \/ GsEntry(t)
        \/ GsRealloc(t)
        \/ GsAssign(t)
        \/ GsMemset(t)
        \/ GsSetSize(t)
        \/ GsTest(t)
        \/ GsMmap(t)
        \/ GsCas(t)
        \/ GsRet(t)

\* One thread calls get_shm on systems of several page sizes (alone, its CAS
\* cannot lose, so line 144 is not reached).
SpecOffset == InitPool(PageSizes) /\ [][NextOffset]_vars

\* An object before its first dynamic property, or with three of them.
InitDispex ==
    /\ PoolReady({SysPageSize})
    /\ dynamic_data \in {NoDynamicData, ThreeProps}
    /\ dx = NoDx
    /\ imc = NoImc
    /\ im = NoIm

NextDispex ==
    \/ CallGetDynamicProp
    \/ dispex_get_dynid
    \/ dispex_get_dprop_ref
    \/ dispex_delete_prop

\* Any sequence of lookups, creations and deletions of dynamic properties on
\* one DispatchEx object, called from its apartment's thread.
SpecDispex == InitDispex /\ [][NextDispex]_vars

\* An input context with or without client data, at one of the lock counts.
InitImm ==
    /\ PoolReady({SysPageSize})
    /\ dynamic_data = NoDynamicData
    /\ dx = NoDx
    /\ imc \in {NoImc} \cup {[exists |-> TRUE, dwLock |-> c] : c \in DwLockStarts}
    /\ im = NoIm

NextImm ==
    \/ ImmLockIMC
    \/ ImmUnlockIMC
    \/ ImmGetIMCLockCount

\* Any sequence of up to MaxImmCalls calls of ImmLockIMC, ImmUnlockIMC and
\* ImmGetIMCLockCount on the context, from its thread.
SpecImm == InitImm /\ [][NextImm]_vars

\* Lookups in an empty handle cache: each applies handle_to_index to its handle
\* and finds no block.
NextIndex ==
    \E t \in Threads :
        \/ CallIndex(t)
        \/ GoEntry(t)
        \/ GoRet(t)

SpecIndex == InitShm /\ [][NextIndex]_vars

\* A process as it starts, with the environment, the kernel, the C library and
\* the errno of each thread drawn from the given sets; the authority runs with
\* or without fsync, its shm file is present or not; all statics are zero.
ProcessStart(envs, kernels, libcs, errnos) ==
    /\ proc = "starting"
    /\ pc = [t \in Threads |-> <<>>]
    /\ calls = [t \in Threads |-> 0]
    /\ done = [t \in Threads |-> NoDone]
    /\ errno \in [Threads -> errnos]
    /\ environ \in envs
    /\ kernel \in kernels
    /\ libc \in libcs
    /\ do_fsync_cached = 0 - 1
    /\ df = [t \in Threads |-> NoDf]
    /\ pagesize = 0
    /\ shm_addrs = NULL
    /\ shm_addrs_size = 0
    /\ heap = [a \in {} |-> 0]
    /\ maps = [a \in {} |-> 0]
    /\ gs = [t \in Threads |-> NoGs]
    /\ fsync_list = <<>>
    /\ blocks = [b \in {InitialBlock} |-> <<>>]
    /\ al = [t \in Threads |-> NoAl]
    /\ go = [t \in Threads |-> NoGo]
    /\ shm_fd = 0
    /\ srv \in ServerChoices
    /\ cf = [t \in Threads |-> NoCf]
    /\ hist = NoHist
    /\ DllStart

\* A start with WINEFSYNC unset or 1 and a kernel with or without the futex
\* operation.
InitProcess ==
    ProcessStart({e \in EnvChoices : e = <<>> \/ e["WINEFSYNC"] = <<"1">>},
                 {"EINVAL", "ENOSYS"}, {"clamp"}, {"none"})

\* Any start.
InitStart == ProcessStart(EnvChoices, KernelChoices, LibcChoices, ErrnoValues)

Next ==
    \E t \in Threads :
        \/ CallFsyncInit(t)
        \/ FiEntry(t)
        \/ DfTest(t)
        \/ DfProbe(t)
        \/ DfDecide(t)
        \/ DfRet(t)
        \/ FiGate(t)
        \/ FiProbe(t)
        \/ FiOpen(t)
        \/ FiPool(t)
        \/ CallFsyncCreateSemaphore(t)
        \/ FcsEntry(t)
        \/ CfAlloc(t)
        \/ CfRequest(t)
        \/ CfPopulate(t)
        \/ CfAdd(t)
        \/ CfFree(t)
        \/ FcsRet(t)
        \/ GsEntry(t)
        \/ GsRealloc(t)
        \/ GsAssign(t)
        \/ GsMemset(t)
        \/ GsSetSize(t)
        \/ GsTest(t)
        \/ GsMmap(t)
        \/ GsCas(t)
        \/ GsMunmap(t)
        \/ GsRet(t)
        \/ AlEntry(t)
        \/ AlTest(t)
        \/ AlStatic(t)
        \/ AlAlloc(t)
        \/ AlSetBlk(t)
        \/ AlCas(t)
        \/ AlShm(t)
        \/ AlResult(t)
        \/ AlRet(t)

\* A process starts, runs fsync_init, and its threads create semaphores
\* concurrently.
Spec == InitProcess /\ [][Next]_vars

NextInit ==
    \E t \in Threads :
        \/ CallFsyncInit(t)
        \/ FiEntry(t)
        \/ DfTest(t)
        \/ DfProbe(t)
        \/ DfDecide(t)
        \/ DfRet(t)
        \/ FiGate(t)
        \/ FiProbe(t)
        \/ FiOpen(t)
        \/ FiPool(t)
        \/ CfAlloc(t)
        \/ CfRequest(t)
        \/ CfPopulate(t)
        \/ CfAdd(t)
        \/ CfFree(t)
        \/ GsEntry(t)
        \/ GsRealloc(t)
        \/ GsAssign(t)
        \/ GsMemset(t)
        \/ GsSetSize(t)
        \/ GsTest(t)
        \/ GsMmap(t)
        \/ GsCas(t)
        \/ GsRet(t)
        \/ AlEntry(t)
        \/ AlTest(t)
        \/ AlStatic(t)
        \/ AlAlloc(t)
        \/ AlSetBlk(t)
        \/ AlCas(t)
        \/ AlShm(t)
        \/ AlResult(t)
        \/ AlRet(t)

\* A process starts and runs fsync_init: the start-up alone, while the process
\* has one thread (the CAS of get_shm cannot lose, so line 144 is not reached).
SpecInit == InitStart /\ [][NextInit]_vars

\* A start with WINEFSYNC unset or 1 on each kind of kernel.
InitProbe ==
    ProcessStart({e \in EnvChoices : e = <<>> \/ e["WINEFSYNC"] = <<"1">>},
                 KernelChoices, {"clamp"}, {"none"})

\* Process start with the threads scheduled fairly: a thread that can take a
\* step is not held back for ever.
SpecInitFair == InitProbe /\ [][NextInit]_vars /\ WF_vars(NextInit)

(* ---------------------------- the claims ------------------------------- *)

\* C1: whenever get_cached_object( h ) returns a record, the record the reader
\* finds holds a type and the shm pointer passed with it to add_to_list for h:
\* the type is never seen set while the pointer is still unset.
C1_ReaderSeesWholeRecord ==
    \A t \in Threads :
        done[t].fn = "get_cached_object" /\ done[t].val # NullRecord =>
            \E a \in hist.adds :
                /\ a[1] = done[t].handle
                /\ done[t].rec = [type |-> a[2], shm |-> a[3]]

\* The environment opts in: WINEFSYNC is set and parses to a nonzero integer.
OptIn == ~Getenv("WINEFSYNC").null /\ Atoi(Getenv("WINEFSYNC").str).val # 0

\* The statuses create_fsync treats as a created or found object.
Created == {STATUS_SUCCESS, STATUS_OBJECT_NAME_EXISTS}

\* C4: when fsync_create_semaphore (create_fsync) has returned success or
\* "already exists" with handle h and slot s, get_cached_object( h ) at that
\* moment yields a record of the requested type whose shm pointer is the one
\* the page pool holds for s, the pointer get_shm( s ) returns.
C4_HandleUsableAfterCreate ==
    \A t \in Threads :
        done[t].fn = "fsync_create_semaphore" /\ done[t].ret \in Created =>
            /\ done[t].cached # NullRecord
            /\ done[t].rec.type = FSYNC_SEMAPHORE
            /\ done[t].rec.shm = done[t].pool
            /\ done[t].pool.base # NULL

\* C5: from the moment the authority has answered a thread's create_fsync
\* request with a status other than success and "already exists", no step of
\* that call changes the handle cache or the page pool (the array, its
\* capacity, the mapped pages), and the call returns exactly that status.
C5_FailureLeavesCacheAndPool ==
    [][\A t \in Threads :
          pc'[t] # pc[t] /\ cf[t].reply \notin Created \cup {"none"} =>
              /\ UNCHANGED <<poolVars, listVars>>
              /\ done'[t].fn = "fsync_create_semaphore" => done'[t].ret = cf[t].reply]_vars

\* A create call has returned the authority's refusal.
C5_FailureReturned ==
    \E t \in Threads :
        /\ done[t].fn = "fsync_create_semaphore"
        /\ done[t].reply \in {STATUS_INVALID_PARAMETER, STATUS_ACCESS_DENIED}
        /\ done[t].ret = done[t].reply

C11_OpenFailureExits ==
    /\ shm_fd = 0 - 1 =>
          /\ proc = "exited"
          /\ srv.file # "present"
          /\ pagesize = 0 /\ shm_addrs = NULL /\ shm_addrs_size = 0
          /\ DOMAIN heap = {} /\ DOMAIN maps = {}
    /\ do_fsync_cached = 1 /\ srv.file # "present" => proc # "running" /\ pagesize = 0
    /\ shm_fd = ShmFd => srv.file = "present"

\* The gate is enabled, the open failed for a reason other than a missing
\* file, and the process has exited.
C11_ExitedOnOpen ==
    /\ do_fsync_cached = 1
    /\ srv.file = "denied"
    /\ shm_fd = 0 - 1
    /\ proc = "exited"

\* The code positions inside get_shm and add_to_list.
PoolLabels ==
    {"gs_entry", "gs_realloc", "gs_assign", "gs_memset", "gs_setsize", "gs_test", "gs_mmap",
     "gs_cas", "gs_munmap", "gs_ret"}

CacheLabels ==
    {"al_entry", "al_test", "al_static", "al_alloc", "al_setblk", "al_cas", "al_shm",
     "al_result", "al_ret"}

\* Thread t is inside a call of one of the functions with these positions.
Inside(t, labels) == \E i \in 1..Len(pc[t]) : pc[t][i] \in labels

\* C12: in a process whose environment does not opt in (WINEFSYNC absent or
\* parsing to 0), no thread is ever inside get_shm or add_to_list, and the page
\* pool and the handle cache stay as the zeroed statics, whatever the
\* authority replies.
C12_DisabledIsInert ==
    ~OptIn =>
        /\ \A t \in Threads : ~Inside(t, PoolLabels \cup CacheLabels)
        /\ pagesize = 0 /\ shm_addrs = NULL /\ shm_addrs_size = 0
        /\ DOMAIN heap = {} /\ DOMAIN maps = {}
        /\ fsync_list = <<>>

Returned(idx) == {r[2] : r \in {q \in hist.shm_rets : q[1] = idx}}

\* The mappings of file page `page` that are still mapped.
LiveMaps(page) == {a \in DOMAIN maps : maps[a].live /\ maps[a].page = page}

AllIdle == proc = "running" /\ \A t \in Threads : Idle(t)

\* C2: all get_shm( i ) calls of a process return the same pointer, whatever
\* other get_shm calls run before, between or concurrently with them.
C2_GetShmIdempotent == \A idx \in ShmIdxChoices : Cardinality(Returned(idx)) <= 1

\* C3: when two threads have raced through the growth path of get_shm for one
\* slot index and no call is in progress any more, exactly one mapping of the
\* slot's page is mapped (no mmap having failed) and all calls for the slot
\* have returned one address.
C3_GrowthRaceKeepsOneMapping ==
    \A idx \in hist.raced :
        AllIdle /\ ~hist.mmap_failed =>
            /\ Cardinality(LiveMaps(ShmEntry(idx, pagesize))) = 1
            /\ Cardinality(Returned(idx)) <= 1

\* C7: once a call of do_fsync has returned v, every call that starts later
\* returns v, and neither probes the futex operation nor computes the decision
\* again.
C7_DecidedOnce ==
    \A t \in Threads :
        hist.late[t] =>
            /\ ~At(t, "df_probe") /\ ~At(t, "df_decide")
            /\ done[t].fn = "do_fsync" => done[t].val = hist.first_ret

\* C8: all do_fsync calls of a process, the concurrent first ones included,
\* return one value, and the cached decision never holds two different values.
C8_OneDecision == Cardinality(hist.rets) <= 1 /\ Cardinality(hist.decisions) <= 1

\* The decision C9 describes: the environment opts in and the probe did not
\* fail with ENOSYS.
C9Expected == IF OptIn /\ kernel # "ENOSYS" THEN 1 ELSE 0

\* C9: do_fsync decides "enabled" exactly when the environment opts in and the
\* probe itself did not fail with ENOSYS, whatever errno held before the call.
C9_DecisionIsProbeAndOptIn == do_fsync_cached # 0 - 1 => do_fsync_cached = C9Expected

C15_FailedMappingNotPublished ==
    /\ \A t \in Threads :
          done[t].fn = "fsync_create_semaphore" /\ done[t].sent = 1 =>
              done[t].ret = done[t].reply
    /\ pagesize # 0 /\ shm_addrs # NULL =>
          \A i \in DOMAIN heap[shm_addrs].cells : heap[shm_addrs].cells[i] # MAP_FAILED
    /\ pagesize # 0 =>
          \A h \in HandleChoices :
              LET r == GetCachedObject(h)
              IN  r # NullRecord => RecordAt(r.blk, r.idx).shm.base # MAP_FAILED

\* The handles whose block number is FSYNC_LIST_ENTRIES or more, those below 4
\* among them.
BeyondList == {h \in HandleChoices : handle_to_index(h).entry >= FSYNC_LIST_ENTRIES}

\* C16: for a handle whose block number is 256 or more (a handle below 4 wraps
\* to one), no step of an add_to_list call changes the block-pointer table or
\* any record, the call returns NULL, and get_cached_object of such a handle
\* is NULL before and after every step and returns NULL when called.
C16_BeyondListIsNoOp ==
    [][/\ \A t \in Threads :
            /\ pc'[t] # pc[t] /\ Inside(t, CacheLabels) /\ al[t].handle \in BeyondList =>
                  UNCHANGED <<fsync_list, blocks>>
            /\ /\ done'[t] # done[t]
               /\ done'[t].fn \in {"add_to_list", "get_cached_object"}
               /\ done'[t].handle \in BeyondList
               => done'[t].val = NullRecord
       /\ \A h \in BeyondList :
            GetCachedObject(h) = NullRecord /\ GetCachedObject(h)' = NullRecord]_vars

\* add_to_list calls for a handle of block 256 and for a handle below 4 have
\* both returned NULL.
C16_BeyondListReturned ==
    /\ \E t \in Threads :
          /\ done[t].fn = "add_to_list" /\ done[t].handle = 0
          /\ done[t].val = NullRecord
    /\ \E t \in Threads :
          /\ done[t].fn = "add_to_list" /\ done[t].handle \in BeyondList \ {0}
          /\ done[t].val = NullRecord

\* The slots of 8 bytes in a page.
SlotsPerPage == pagesize \div SizeofSemaphore

\* The pointer p lies in a mapping of the file that is in place.
Mapped(p) == p.base \in DOMAIN maps /\ maps[p.base].live

\* C17: every pointer a get_shm( i ) call has returned into a mapping of the
\* file designates the 8 bytes at file offset i * 8 (page i * 8 / pagesize of
\* the file, at i * 8 % pagesize in it), and the pointers returned for two
\* different slot indices are different.
C17_PointerIsSlotOfFile ==
    /\ \A r \in hist.shm_rets :
          Mapped(r[2]) =>
              /\ maps[r[2].base].page = r[1] \div SlotsPerPage
              /\ r[2].off = (r[1] % SlotsPerPage) * SizeofSemaphore
    /\ \A r, q \in hist.shm_rets :
          Mapped(r[2]) /\ Mapped(q[2]) /\ r[1] # q[1] => r[2] # q[2]

DfLabels == {"df_test", "df_probe", "df_decide", "df_ret"}

C19_NoSecondRequest ==
    [][\A t \in Threads :
          cf'[t].sent > cf[t].sent =>
              cf[t].sent = 0 /\ cf[t].reply = "none" /\ cf'[t].sent = 1]_vars

\* Calls answered with a refusal and with success have both returned, each
\* after one request.
C19_RefusedAndCreatedReturned ==
    /\ \E t \in Threads :
          /\ done[t].fn = "fsync_create_semaphore" /\ done[t].sent = 1
          /\ done[t].reply \in {STATUS_INVALID_PARAMETER, STATUS_ACCESS_DENIED}
    /\ \E t \in Threads :
          /\ done[t].fn = "fsync_create_semaphore" /\ done[t].sent = 1
          /\ done[t].reply = STATUS_SUCCESS

\* The type of the record of handle h as get_cached_object shows it: 0 while
\* it returns NULL.
SeenType(h) ==
    LET r == GetCachedObject(h)
    IN  IF r = NullRecord THEN 0 ELSE RecordAt(r.blk, r.idx).type

\* C20: over every interleaving of add_to_list calls, the type of a record as
\* seen through get_cached_object, once nonzero, keeps its value in every
\* step: it never changes and never reverts to 0.
C20_TypeSetOnce ==
    [][\A h \in HandleChoices : SeenType(h) # 0 => SeenType(h)' = SeenType(h)]_vars

\* C21: a block pointer of the handle cache, once set, keeps its value in every
\* step, and a record that get_cached_object returns for a handle is returned
\* for it after every step, over every interleaving of add_to_list calls
\* (two threads on the first use of a block above 0 included).
C21_BlockPointerSetOnce ==
    [][/\ \A e \in DOMAIN fsync_list :
            fsync_list[e] # NULL => ListEntry(e)' = fsync_list[e]
       /\ \A h \in HandleChoices :
            GetCachedObject(h) # NullRecord => GetCachedObject(h)' = GetCachedObject(h)]_vars

\* C22: once a get_cached_object( h ) call has returned a record, with its type
\* and shared pointer p, get_cached_object( h ) in every later state gives a
\* record with that type and that p, whatever add_to_list calls are made.
C22_CachedRecordNeverChanges ==
    \A t \in Threads :
        done[t].fn = "get_cached_object" /\ done[t].val # NullRecord =>
            LET r == GetCachedObject(done[t].handle)
            IN  r # NullRecord /\ RecordAt(r.blk, r.idx) = done[t].rec

\* The entry of the page-pointer array for page e as the array stands.
PageCell(e) ==
    IF shm_addrs = NULL \/ e >= heap[shm_addrs].size THEN NULL
    ELSE Cell(heap[shm_addrs].cells, e)

\* No get_shm call has run together with a growth of the array, and every mmap
\* has mapped its page.
NoGrowthRace == proc = "running" /\ shm_addrs # NULL /\ ~hist.grow_raced /\ ~hist.mmap_failed

PagesUsed == {ShmEntry(i, pagesize) : i \in ShmIdxChoices}

\* C24: in every step of every interleaving of get_shm calls the capacity of
\* the page-pointer array does not decrease; a step that changes it sets it to
\* max(2 * old capacity, page + 1) and leaves the added entries NULL; and an
\* entry that holds a published mapping holds the same mapping after the step.
C24_ArrayOnlyGrows ==
    [][/\ shm_addrs_size' >= shm_addrs_size
       /\ shm_addrs_size' # shm_addrs_size =>
             /\ \E t \in Threads :
                   /\ At(t, "gs_setsize")
                   /\ shm_addrs_size' = Max(2 * shm_addrs_size, gs[t].entry + 1)
             /\ \A e \in PagesUsed :
                   e >= shm_addrs_size /\ e < shm_addrs_size' => PageCell(e)' = NULL
       /\ \A e \in PagesUsed :
             PageCell(e) \in DOMAIN maps => PageCell(e)' = PageCell(e)]_vars

\* The add_to_list calls for handle h that have won the CAS on the type.
CasWinners(h) == {w \in hist.cas_won : w[2] = h}

\* C25: when the add_to_list calls for a handle have all returned, exactly one
\* of them has won the CAS on the type; the record of the handle is the pair
\* (type, shared pointer) of that call; and every call that returned a record
\* returned the address of that one record.
C25_OneWinnerPerHandle ==
    \A h \in HandleChoices :
        AllIdle /\ CasWinners(h) # {} =>
            /\ Cardinality(CasWinners(h)) = 1
            /\ \A w \in CasWinners(h) :
                  LET r == GetCachedObject(h)
                  IN  r # NullRecord /\ RecordAt(r.blk, r.idx) = [type |-> w[3], shm |-> w[4]]
            /\ \A t \in Threads :
                  done[t].fn = "add_to_list" /\ done[t].handle = h /\ done[t].val # NullRecord
                      => done[t].val = GetCachedObject(h)

GoLabels == {"go_entry", "go_type", "go_result", "go_ret"}

\* C26: no step of a get_cached_object call changes the handle cache or the
\* page pool (no block allocated, no page mapped, nothing written), and a call
\* during which the cache was as it was at its start returns NULL when the
\* block index is out of range, the block is unallocated or the type is zero,
\* and the address of the record otherwise.
C26_LookupIsPure ==
    [][\A t \in Threads :
          pc'[t] # pc[t] /\ Inside(t, GoLabels) =>
              /\ UNCHANGED <<listVars, poolVars>>
              /\ done'[t] # done[t] /\ done'[t].quiet =>
                    LET i == handle_to_index(done'[t].handle)
                    IN  done'[t].val =
                            IF i.entry >= FSYNC_LIST_ENTRIES THEN NullRecord
                            ELSE IF ListEntry(i.entry) = NULL THEN NullRecord
                            ELSE IF RecordAt(ListEntry(i.entry), i.idx).type = 0 THEN NullRecord
                            ELSE [blk |-> ListEntry(i.entry), idx |-> i.idx]]_vars

\* Lookups have returned a record and NULL, for a record whose type is zero in
\* an allocated block, with the cache unchanged during each call.
C26_RecordAndNullReturned ==
    /\ \E t \in Threads :
          /\ done[t].fn = "get_cached_object" /\ done[t].quiet
          /\ done[t].val # NullRecord
    /\ \E t \in Threads :
          /\ done[t].fn = "get_cached_object" /\ done[t].quiet
          /\ done[t].val = NullRecord
          /\ ListEntry(handle_to_index(done[t].handle).entry) # NULL

\* C27: for every slot index, get_shm computes the page and the offset on the
\* true product idx * 8: a call that has read its arguments holds the page
\* idx / (pagesize / 8) and the offset (idx % (pagesize / 8)) * 8, so an index
\* of 2^29 or more does not land in the page of a smaller index.
C27_NoWrapAround ==
    \A t \in Threads :
        Inside(t, PoolLabels \ {"gs_entry"}) /\ pagesize # 0 =>
            /\ gs[t].entry = gs[t].idx \div SlotsPerPage
            /\ gs[t].offset = (gs[t].idx % SlotsPerPage) * SizeofSemaphore

\* The index of handle h, (h >> 2) - 1, for a handle of 4 or more.
IndexOf(h) == (h \div 4) - 1

\* Thread t is in a lookup that has split its handle into block and offset.
Split(t) == At(t, "go_ret") /\ Len(pc[t]) = 1

\* C28: the block and the offset a lookup derives from its handle h are
\* ((h >> 2) - 1) / BLOCK_SIZE and ((h >> 2) - 1) mod BLOCK_SIZE, the offset
\* below BLOCK_SIZE (for a handle below 4 the index wraps to the largest one:
\* the last offset of a block beyond the list); two lookups derive the same
\* pair for handles that differ only in the two low bits and different pairs
\* for different nonzero multiples of 4.
C28_HandleToIndex ==
    /\ \A t \in Threads :
          Split(t) =>
              /\ go[t].idx >= 0 /\ go[t].idx < FSYNC_LIST_BLOCK_SIZE
              /\ go[t].handle >= 4 =>
                    /\ go[t].entry = IndexOf(go[t].handle) \div FSYNC_LIST_BLOCK_SIZE
                    /\ go[t].idx = IndexOf(go[t].handle) % FSYNC_LIST_BLOCK_SIZE
              /\ go[t].handle < 4 =>
                    /\ go[t].entry >= FSYNC_LIST_ENTRIES
                    /\ go[t].idx = FSYNC_LIST_BLOCK_SIZE - 1
    /\ \A t, u \in Threads :
          Split(t) /\ Split(u) =>
              /\ go[t].handle \div 4 = go[u].handle \div 4 =>
                    go[t].entry = go[u].entry /\ go[t].idx = go[u].idx
              /\ /\ go[t].handle # go[u].handle
                 /\ go[t].handle % 4 = 0 /\ go[u].handle % 4 = 0
                 /\ go[t].handle # 0 /\ go[u].handle # 0
                 => <<go[t].entry, go[t].idx>> # <<go[u].entry, go[u].idx>>

\* Two lookups have split handles that differ only in the low bits, in block 1.
C28_LowBitsShareRecord ==
    \E t, u \in Threads :
        /\ Split(t) /\ Split(u)
        /\ go[t].handle = 16388 /\ go[u].handle = 16391
        /\ go[t].entry = 1 /\ go[u].entry = 1 /\ go[t].idx = go[u].idx

\* C29: whenever a thread is inside get_shm, called from create_fsync by
\* fsync_init or fsync_create_semaphore, the page pool has been set up by
\* fsync_init: the page size is not zero and the pointer array is allocated.
C29_GetShmAfterInit ==
    \A t \in Threads :
        Inside(t, PoolLabels) =>
            pagesize # 0 /\ DOMAIN heap # {} /\ shm_addrs_size >= InitialShmAddrsSize

\* fsync_init has returned and no other call has been made.
JustInitialized ==
    proc = "running" /\ pagesize # 0 /\ \A t \in Threads : calls[t] = (IF t = 1 THEN 1 ELSE 0)

\* C30: right after fsync_init has set up the pool the array has 128 entries,
\* all NULL, and no page is mapped; a step maps a page only inside a get_shm
\* call for a slot index lying in that page; and an entry holding a published
\* mapping holds it after every step, the mapping still mapped.
C30_LazyAndPermanent ==
    [][pagesize # 0 =>
          /\ JustInitialized =>
                /\ shm_addrs # NULL
                /\ heap[shm_addrs].size = InitialShmAddrsSize
                /\ DOMAIN heap[shm_addrs].cells = {}
                /\ DOMAIN maps = {}
          /\ \A a \in DOMAIN maps' \ DOMAIN maps :
                \E t \in Threads :
                    /\ At(t, "gs_mmap")
                    /\ maps'[a].page = gs[t].idx \div SlotsPerPage
          /\ \A e \in PagesUsed :
                PageCell(e) \in DOMAIN maps /\ maps[PageCell(e)].live =>
                    PageCell(e)' = PageCell(e) /\ maps'[PageCell(e)].live]_vars

\* The code positions of get_shm, add_to_list and get_cached_object, each with
\* the largest number of steps its call can still take from there.
StepsLeft ==
    [l \in PoolLabels \cup CacheLabels \cup GoLabels |->
        CASE l = "gs_entry" -> 10 [] l = "gs_realloc" -> 9 [] l = "gs_assign" -> 8
          [] l = "gs_memset" -> 7 [] l = "gs_setsize" -> 6 [] l = "gs_test" -> 5
          [] l = "gs_mmap" -> 4 [] l = "gs_cas" -> 3 [] l = "gs_munmap" -> 2
          [] l = "gs_ret" -> 1
          [] l = "al_entry" -> 8 [] l = "al_test" -> 7 [] l = "al_static" -> 6
          [] l = "al_alloc" -> 6 [] l = "al_setblk" -> 5 [] l = "al_cas" -> 4
          [] l = "al_shm" -> 3 [] l = "al_result" -> 2 [] l = "al_ret" -> 1
          [] l = "go_entry" -> 4 [] l = "go_type" -> 3 [] l = "go_result" -> 2
          [] l = "go_ret" -> 1]

\* C31: get_shm, add_to_list and get_cached_object are non-blocking.  While the
\* process runs, a thread inside one of them can take its next step in every
\* state, wherever the other threads stand (none holds a lock it waits for), and
\* each of its steps either returns or moves it to a position with fewer steps
\* left, after a lost CAS too: a call ends within ten of its own steps.
C31_FastPathNeverWaits ==
    /\ [](\A t \in Threads :
            proc = "running" /\ ~Idle(t) => ENABLED FastStep(t))
    /\ [][\A t \in Threads :
            pc'[t] # pc[t] /\ ~Idle(t)
                => \/ pc'[t] = Tail(pc[t])
                   \/ /\ Len(pc'[t]) = Len(pc[t])
                      /\ StepsLeft[Head(pc'[t])] < StepsLeft[Head(pc[t])]]_vars

\* A thread has lost the CAS of add_to_list or of get_shm and returned while
\* the other thread stands still in the middle of its own call.
C31_LoserReturnedPastStalledThread ==
    \E t \in Threads : \E u \in Threads \ {t} :
        /\ done[t].fn = "add_to_list"
        /\ <<t, done[t].handle, FSYNC_SEMAPHORE, [base |-> 2, off |-> 0]>> \notin hist.cas_won
        /\ done[t].val # NullRecord
        /\ ~Idle(u)
        /\ Head(pc[u]) \in {"al_shm", "gs_cas"}

\* The handles whose record lies in block 0 of the handle cache.
InFirstBlock(h) == h >= 4 /\ (h \div 4) - 1 < FSYNC_LIST_BLOCK_SIZE

\* C32: block 0 of the handle cache is the static array.  The pointer of block
\* 0 is NULL or the address of fsync_list_initial_block; an add_to_list call for
\* a handle of block 0 never stands at the mapping call or at the store of a
\* mapped block; and a record a call has CAS-published into block 0 stays there
\* with its type, and with its shm pointer once the publishing call has
\* returned, however the threads raced on the first use of the block.
C32_StaticFirstBlock ==
    /\ ListEntry(0) \in {NULL, InitialBlock}
    /\ \A t \in Threads :
          ~Idle(t) /\ Head(pc[t]) \in CacheLabels /\ InFirstBlock(al[t].handle)
              => Head(pc[t]) \notin {"al_alloc", "al_setblk"}
    /\ \A w \in hist.cas_won :
          InFirstBlock(w[2]) =>
              LET rec == RecordAt(ListEntry(0), ((w[2] \div 4) - 1) % FSYNC_LIST_BLOCK_SIZE)
              IN  /\ ListEntry(0) = InitialBlock
                  /\ rec.type = w[3]
                  /\ (Idle(w[1]) => rec.shm = w[4])

\* Two threads raced on the first use of block 0: one stored the block pointer
\* after the other had published its record, both calls have returned and the
\* record is in the cache.
C32_FirstUseRaced ==
    /\ hist.reinstalled
    /\ \A t \in Threads : Idle(t) /\ done[t].fn = "add_to_list" /\ InFirstBlock(done[t].handle)
    /\ \E w \in hist.cas_won :
          /\ RecordAt(InitialBlock, 0) = [type |-> w[3], shm |-> w[4]]
          /\ \E t \in Threads \ {w[1]} : done[t].val = [blk |-> InitialBlock, idx |-> 0]

\* C33: the status a create that sent its request returns is the status of the
\* authority's reply, whatever add_to_list did.  An add_to_list call that ends
\* at the range test or at a failed anon_mmap_alloc returns NULL and leaves the
\* block pointers and the blocks as they were; the create around it still
\* returns success or "already exists", with the reply's handle written.
C33_StatusIsReplyStatus ==
    /\ [](\A t \in Threads :
            /\ ~Idle(t) /\ Head(pc[t]) \in {"cf_populate", "cf_add", "cf_free", "fcs_ret"}
                        /\ cf[t].sent > 0
                  => cf[t].ret = cf[t].reply
            /\ done[t].fn = "fsync_create_semaphore" /\ done[t].sent > 0
                  => /\ done[t].ret = done[t].reply
                     /\ done[t].ret \in {STATUS_SUCCESS, STATUS_OBJECT_NAME_EXISTS}
                           => done[t].handle \in ServerHandles)
    /\ [][\A t \in Threads :
            /\ ~Idle(t)
            /\ Head(pc[t]) \in {"al_entry", "al_alloc"}
            /\ pc'[t] # pc[t]
            /\ Head(pc'[t]) = "al_ret"
            => /\ al'[t].ret = NullRecord
               /\ UNCHANGED <<fsync_list, blocks>>]_vars

\* Two creates have returned success with the handle written though neither
\* handle was cached: one handle lies beyond the list, the block of the other
\* could not be allocated.
C33_CreatedButNotCached ==
    \E t \in Threads : \E u \in Threads \ {t} :
        /\ done[t].fn = "fsync_create_semaphore"
        /\ done[t].ret = STATUS_SUCCESS
        /\ done[t].handle = 4194308
        /\ done[t].cached = NullRecord
        /\ done[u].fn = "fsync_create_semaphore"
        /\ done[u].ret = STATUS_SUCCESS
        /\ done[u].handle = 16388
        /\ done[u].cached = NullRecord
        /\ ListEntry(1) = NULL

\* C34: in a process whose gate is disabled, once the probe request of
\* fsync_init has been answered: no second request is sent; the process is
\* never ended by a fatal signal; it goes on running only after the reply "not
\* implemented", with the page size, the shared descriptor and the array of
\* page pointers as the zeroed statics; and after that reply it does not exit.
C34_DisabledProbeExitsOrReturns ==
    hist.probe # "none" =>
        /\ \A t \in Threads : cf[t].sent <= 1
        /\ proc # "crashed"
        /\ proc = "running" =>
              /\ hist.probe = STATUS_NOT_IMPLEMENTED
              /\ pagesize = 0 /\ shm_fd = 0 /\ shm_addrs = NULL /\ shm_addrs_size = 0
        /\ proc = "exited" => hist.probe # STATUS_NOT_IMPLEMENTED

\* C35: a create whose attributes alloc_object_attributes rejects returns that
\* status with no request sent and the caller's handle unwritten, and no step
\* of the call changes the authority, the handle cache or the page pool; a
\* create the authority answers with a failure returns with the caller's handle
\* unwritten too.
C35_EarlyFailureTouchesNothing ==
    /\ [](\A t \in Threads :
            done[t].fn = "fsync_create_semaphore" =>
                /\ done[t].attr = BadAttr
                      => /\ done[t].ret = STATUS_INVALID_PARAMETER
                         /\ done[t].sent = 0
                         /\ done[t].reply = "none"
                /\ done[t].ret \notin {STATUS_SUCCESS, STATUS_OBJECT_NAME_EXISTS}
                      => done[t].handle = Uninit)
    /\ [][\A t \in Threads :
            pc'[t] # pc[t] /\ ~Idle(t) /\ Head(pc[t]) \in {"fcs_entry", "cf_alloc", "fcs_ret"}
                           /\ cf[t].attr = BadAttr
                => /\ UNCHANGED <<poolVars, listVars, srv>>
                   /\ ~Idle(t)' => Head(pc'[t]) \in {"cf_alloc", "fcs_ret"}]_vars

\* One create has returned the local rejection of its attributes and another
\* the authority's refusal, both with the handle unwritten.
C35_RejectedAndRefusedReturned ==
    \E t \in Threads :
        /\ done[t].fn = "fsync_create_semaphore"
        /\ done[t].attr = BadAttr
        /\ done[t].ret = STATUS_INVALID_PARAMETER
        /\ done[t].handle = Uninit
        /\ \E u \in Threads \ {t} :
              /\ done[u].fn = "fsync_create_semaphore"
              /\ done[u].reply = STATUS_ACCESS_DENIED
              /\ done[u].handle = Uninit

\* C36: on every page size that is a multiple of 8, the offset get_shm computes
\* for a slot is a multiple of 8 and at most pagesize - 8, in the call's local
\* and in every pointer returned, and two pointers returned for different slots
\* into the same mapped page are at least 8 bytes apart.
C36_BlocksAlignedAndApart ==
    /\ \A t \in Threads :
          ~Idle(t) /\ Head(pc[t]) \in PoolLabels \ {"gs_entry"}
              => /\ gs[t].offset % SizeofSemaphore = 0
                 /\ gs[t].offset >= 0
                 /\ gs[t].offset <= pagesize - SizeofSemaphore
    /\ \A r \in hist.shm_rets :
          /\ r[2].off % SizeofSemaphore = 0
          /\ r[2].off >= 0
          /\ r[2].off <= pagesize - SizeofSemaphore
    /\ \A r \in hist.shm_rets : \A q \in hist.shm_rets :
          r[1] # q[1] /\ r[2].base = q[2].base /\ r[2].base \in DOMAIN maps
              => \/ r[2].off + SizeofSemaphore <= q[2].off
                 \/ q[2].off + SizeofSemaphore <= r[2].off

(* ------------------------------ C37 ------------------------------------ *)

\* The calls that look a name up and may create it.
DxLookups == {"get_dynamic_prop", "dispex_get_dynid", "dispex_get_dprop_ref"}

\* One call on the object, as C37 wants it: the count does not decrease and no
\* entry changes its name or place; a deletion by an identifier of an entry
\* clears the value of that entry and marks it, and changes nothing else; a
\* lookup that succeeds returns DISPID_DYNPROP_0 plus the place of the first
\* entry the name matches, which is not marked afterwards; a lookup whose match
\* is marked revives that entry in its place under fdexNameEnsure and reports
\* DISP_E_UNKNOWNNAME, changing nothing, without it.
DxStepKeepsIds ==
    LET d == dynamic_data
        e == dynamic_data'
        n == d.prop_cnt
        i == FirstMatch(d, dx'.name, dx'.flags)
    IN  /\ e.prop_cnt >= n
        /\ \A k \in 1..n : e.props[k].name = d.props[k].name
        /\ dx'.fn = "dispex_delete_prop" =>
              /\ dx'.hres = S_OK
              /\ e.prop_cnt = n
              /\ \A k \in 1..n :
                    e.props[k] = IF dx'.id_in = DISPID_DYNPROP_0 + (k - 1)
                                 THEN [name |-> d.props[k].name, deleted |-> TRUE,
                                       var |-> VT_EMPTY]
                                 ELSE d.props[k]
        /\ dx'.fn \in DxLookups /\ dx'.hres = S_OK =>
              /\ dx'.id = DISPID_DYNPROP_0 + (IF i >= 0 THEN i ELSE n)
              /\ e.prop_cnt = IF i >= 0 THEN n ELSE n + 1
              /\ ~e.props[dx'.id - DISPID_DYNPROP_0 + 1].deleted
              /\ NameMatches(e.props[dx'.id - DISPID_DYNPROP_0 + 1].name, dx'.name, dx'.flags)
              /\ \A k \in 1..n :
                    k # i + 1 => /\ e.props[k].deleted = d.props[k].deleted
                                 /\ dx'.fn # "dispex_get_dprop_ref" => e.props[k] = d.props[k]
        /\ dx'.fn \in DxLookups /\ i >= 0 /\ d.props[i + 1].deleted =>
              IF "fdexNameEnsure" \in dx'.flags
              THEN /\ dx'.hres = S_OK
                   /\ dx'.id = DISPID_DYNPROP_0 + i
                   /\ e.prop_cnt = n
              ELSE /\ dx'.hres = DISP_E_UNKNOWNNAME
                   /\ e.props = d.props

\* C37: the identifier of a dynamic property is DISPID_DYNPROP_0 plus its place in
\* the property array and stays so while the object lives: over any calls that
\* get or create and delete, the property count never decreases, a deletion only
\* clears the value of its property and marks it deleted and moves no other
\* property, creating a deleted name again with fdexNameEnsure revives the same
\* identifier, and looking it up without fdexNameEnsure reports unknown name.
C37_IdsStableOverCreateAndDelete == [][DxStepKeepsIds]_vars

\* A deleted name was created again by dispex_get_dynid and got back the
\* identifier of its place, the fifth in an array that had to grow for it, while
\* another property of the object is deleted.
C37_DeletedNameRevived ==
    /\ dx.fn = "dispex_get_dynid"
    /\ dx.hres = S_OK
    /\ dx.found_deleted
    /\ dx.id = DISPID_DYNPROP_0 + FirstBufSize
    /\ dynamic_data.prop_cnt = FirstBufSize + 1
    /\ dynamic_data.buf_size = 2 * FirstBufSize
    /\ ~dynamic_data.props[FirstBufSize + 1].deleted
    /\ \E k \in 1..FirstBufSize : dynamic_data.props[k].deleted

(* ------------------------------ C38 ------------------------------------ *)

\* The lock count of the context before a call: a context without client data
\* gets it zeroed by the call.
CountBefore == IF imc.exists THEN imc.dwLock ELSE DwordZero

\* v + 1 in the integers, on the halves of v: the high half is not reduced.
PlusOne(v) == IF v[2] + 1 < HalfWord THEN <<v[1], v[2] + 1>> ELSE <<v[1] + 1, 0>>

\* v - 1 for v above zero.
MinusOne(v) == IF v[2] > 0 THEN <<v[1], v[2] - 1>> ELSE <<v[1] - 1, HalfWord - 1>>

\* A call on the valid context that found its data.
OnValidImc == im'.himc = ValidImc /\ imc'.exists

\* One call, as C38 wants it: ImmLockIMC adds one to the count, ImmUnlockIMC
\* takes one off a count above zero and leaves a count of zero, returning TRUE
\* in both cases, and ImmGetIMCLockCount returns the count and leaves it.
ImmStepCounts ==
    OnValidImc =>
        /\ im'.fn = "ImmLockIMC" =>
              /\ im'.ret = "&data->IMC"
              /\ imc'.dwLock = PlusOne(CountBefore)
        /\ im'.fn = "ImmUnlockIMC" =>
              /\ im'.ret = TRUE
              /\ imc'.dwLock = IF CountBefore = DwordZero THEN DwordZero
                               ELSE MinusOne(CountBefore)
        /\ im'.fn = "ImmGetIMCLockCount" =>
              /\ im'.ret = CountBefore
              /\ imc'.dwLock = CountBefore

\* C38: for a valid input context, over any sequence of ImmLockIMC and
\* ImmUnlockIMC calls the lock count ImmGetIMCLockCount reports is never negative
\* and never wraps: each ImmLockIMC adds one, each ImmUnlockIMC subtracts one
\* only when the count is above zero, and ImmUnlockIMC on a count of zero leaves
\* it at zero and still returns TRUE.
C38_LockCountNeverWraps == [][ImmStepCounts]_vars

\* The same for the calls made while the count is below the largest DWORD.
ImmStepCountsBelowMax == CountBefore # DwordMax => ImmStepCounts

C38_LockCountBelowMax == [][ImmStepCountsBelowMax]_vars

\* ImmUnlockIMC on a count of zero returned TRUE and left zero.
C38_UnlockedAtZero ==
    /\ im.fn = "ImmUnlockIMC"
    /\ im.himc = ValidImc
    /\ im.ret = TRUE
    /\ imc.exists
    /\ imc.dwLock = DwordZero

====
